---- MODULE Spec2Model ----
(***************************************************************************)
(* A model of bingo: the tracing engine (internal/debugger), the session   *)
(* hub and its connections (internal/ws), the server's hub registry and    *)
(* the controller library (pkg/client).                                    *)
(*                                                                         *)
(* The specifications of the module:                                       *)
(*   SpecEngine    the Debugger's breakpoint operations on a traced target *)
(*   SpecRegistry  the Server's hubs map                                   *)
(*   SpecHub       the life of one session: Hub.Run, its connections, the  *)
(*                 commands that end a session and the engine goroutine    *)
(*   SpecHubFair   SpecHub with every goroutine scheduled                  *)
(*   SpecIdle      connections coming and going, time and the idle tick    *)
(*   SpecIdleFair  SpecIdle with every goroutine scheduled                 *)
(*   SpecSend      the send path: broadcasts, send queues and WritePump    *)
(*   SpecCommands  the command path: ReadPump, Hub.commands, DebugCommand  *)
(*                 and the engine goroutine                                *)
(*   SpecEvents    the event path: the engine's reports, the listener's    *)
(*                 broadcasts and their delivery to an endpoint            *)
(*   SpecClient    a controller: its state and its command methods         *)
(*   SpecStop      Debugger.StopDebug called any number of times           *)
(*   SpecStart     startDebug with a target path that may fail validation  *)
(*   SpecHandlers  the Debugger's operations as initialBreakpointHit and    *)
(*                 breakpointHit invoke them                               *)
(*   SpecDecode    command envelopes of unknown type or undecodable data   *)
(*   SpecTargets   the goroutines started by successive startDebug         *)
(*                 commands on the one Debugger of a session               *)
(*   SpecInitial   initialBreakpointHit driven through the Debugger's       *)
(*                 channels with commands of any type and payload          *)
(***************************************************************************)
EXTENDS Integers, Sequences, FiniteSets, TLC

VARIABLES
    \* ---- tracing engine (Debugger) and its target --------------------
    mem,          \* target code memory: address -> byte
    Breakpoints,  \* Debugger.Breakpoints: pc -> saved byte slice
    rip,          \* regs.Rip of the traced thread
    engine,       \* where the engine is: stopped/stepping/running/panicked
    cause,        \* why the target last stopped: initial/trap/step
    frame,        \* locals of the Continue in progress (line, bpAddr)
    armedOrig,    \* history: pc -> byte read the first time pc was armed
    last,         \* history: the latest Debugger call
    prev,         \* history: the call before it
    \* ---- server registry (Server) ------------------------------------
    hubs,         \* Server.hubs: session id -> hub
    maxSessions,  \* Server.config.MaxSessions
    hubLoops,     \* hubs whose Run loop was started (go hub.Run())
    liveHubs,     \* history: <<id, hub>> created and not removed since
    lastCall,     \* history: the latest Server call and the state before it
    \* ---- one session: Hub, Connections, engine goroutines -------------
    hubLoop,      \* Hub.Run: none/run/unregisterBlocked/broadcastBlocked/returned
    connections,  \* Hub.connections
    events,       \* Hub.events (buffered channel)
    commands,     \* Hub.commands (buffered channel)
    idleExpired,  \* time.Since(h.lastActivity) > h.idleTimeout
    handler,      \* getOrCreateSession of each connection: where it is
    readPump,     \* Connection.ReadPump: where it is
    writePump,    \* Connection.WritePump: where it is
    connOpen,     \* Connection.conn not closed by closeConn
    send,         \* Connection.send (buffered channel)
    sendClosed,   \* Connection.send closed by CloseSend
    sendOnce,     \* Connection.sendOnce has fired
    closes,       \* history: times close(c.send) was executed
    removals,     \* history: times the connection was deleted from the set
    listener,     \* Hub.listenForDebuggerEvents: off/listening/done
    dbg,          \* Debugger.StartWithDebug: off/starting/initial/loop/trapped/done
    target,       \* the traced process: none/stopped/running/exited/detached
    DebugCommand,     \* Debugger.DebugCommand (buffered channel)
    EndDebugSession,  \* Debugger.EndDebugSession (buffered channel)
    crashed,      \* an unrecovered panic ended the process
    nRead,        \* envelopes read by the ReadPumps so far
    nStarts,      \* startDebug envelopes read so far (at most one is explored)
    nEvents,      \* events created so far (the serial number of the latest)
    pushed,       \* history: messages pushed onto each send queue
    written,      \* history: messages each WritePump wrote to its stream
    engineLog,    \* history: commands the engine received on DebugCommand
    slowFound,    \* history: endpoints a broadcast found with a full queue
    shutdownCalls, \* history: invocations of Hub.onShutdown
    BreakpointHit,         \* Debugger.BreakpointHit (buffered channel)
    InitialBreakpointHit,  \* Debugger.InitialBreakpointHit (buffered channel)
    relay,        \* listenForDebuggerEvents: messages it has still to Broadcast
    resumedBy,    \* number of the command that last resumed the target
    clientState,  \* pkg/client Client.state
    clientSend,   \* pkg/client Client.send (buffered channel)
    clientDone,   \* pkg/client Client.done is closed
    clientCall,   \* the latest call of a Client command method
    stopCalls,    \* history: calls of Debugger.StopDebug
    detaches,     \* history: PtraceDetach calls made by StopDebug
    endSignals,   \* history: values StopDebug put on EndDebugSession
    engineAt,     \* each goroutine running StartWithDebug: where it is
    DebugInfo,    \* Debugger.DebugInfo.Target: the target it names (0: none)
    ptraceOps     \* history: ptrace calls made, by goroutine and target

engVars == <<mem, Breakpoints, rip, engine, cause, frame, armedOrig, last, prev>>
regVars == <<hubs, maxSessions, hubLoops, liveHubs, lastCall>>
loopVars == <<hubLoop, connections, events, commands, idleExpired>>
connVars == <<handler, readPump, writePump, connOpen, send, sendClosed,
              sendOnce, closes, removals>>
dbgVars == <<listener, dbg, target, DebugCommand, EndDebugSession>>
histVars == <<crashed, nRead, nStarts, nEvents, pushed, written, engineLog,
              slowFound, shutdownCalls>>
evtVars == <<BreakpointHit, InitialBreakpointHit, relay, resumedBy>>
hubVars == <<loopVars, connVars, dbgVars, histVars, evtVars>>

cliVars == <<clientState, clientSend, clientDone, clientCall>>

stopVars == <<stopCalls, detaches, endSignals>>

goVars == <<engineAt, DebugInfo, ptraceOps>>

vars == <<engVars, regVars, hubVars, cliVars, stopVars, goVars>>

\* What the engine's and the registry's own steps leave alone.
notEng == <<regVars, hubVars, cliVars, stopVars, goVars>>
notReg == <<engVars, hubVars, cliVars, stopVars, goVars>>

(***************************************************************************)
(* Bounds of the model.                                                    *)
(***************************************************************************)
\* Source lines of the target with a pc in the line table.
NLines == 2
\* One-byte instructions attributed to each mapped line.
InstrPerLine == 2
\* Session identifiers callers may name.
NSessionIDs == 3
\* The positive MaxSessions setting explored (0, no limit, is explored too).
MaxSessions == 2
\* Hubs the server may create in one run.
MaxHubs == 4
\* Envelopes the ReadPumps read in one run, all connections together.
MaxCmds == 3
\* Messages created in one run (broadcasts and state updates).
MaxEvents == 2
\* Channel capacities, scaled down from 256, 256 and 32.
clientSendBufferSize == 2
eventBufferSize == 2
commandBufferSize == 2

(***************************************************************************)
(* Program constants.                                                      *)
(***************************************************************************)
\* bpCode = []byte{0xCC}
TrapByte == 204
\* make(chan ..., 1): capacity of each of the Debugger's four channels.
debuggerChanSize == 1

(***************************************************************************)
(* The target: a looping program of one-byte instructions, InstrPerLine    *)
(* for each mapped line, closed by a jump back to its entry.               *)
(***************************************************************************)
NAddr == NLines * InstrPerLine + 1
Addrs == 0 .. (NAddr - 1)
\* Lines a caller may name: 0 and NLines + 1 have no pc.
Lines == 0 .. (NLines + 1)
Bools == {TRUE, FALSE}

\* The bytes of the untouched program text (none is the trap byte).
TargetCode(a) == IF a % 2 = 0 THEN 85 ELSE 72

\* Control flow of the target: straight line, the last instruction jumps
\* back to the entry.
NextPC(a) == IF a >= NAddr - 1 THEN 0 ELSE a + 1

(***************************************************************************)
(* Debug-info oracle: DebugInfo.LineToPC / DebugInfo.PCToLine.             *)
(***************************************************************************)
LineMapped(line) == line \in 1 .. NLines
\* First pc attributed to the line (only meaningful when LineMapped).
LineToPC(line) == (line - 1) * InstrPerLine
\* Line holding pc; 0 when pc is outside the table (gosym returns 0).
PCToLine(pc) ==
    IF pc \in 0 .. (NLines * InstrPerLine - 1) THEN (pc \div InstrPerLine) + 1 ELSE 0

(***************************************************************************)
(* Breakpoint table: map[uint64][]byte.  A missing key reads as the nil    *)
(* slice, <<>>.                                                            *)
(***************************************************************************)
TableGet(bp, pc) == IF pc \in DOMAIN bp THEN bp[pc] ELSE <<>>
TablePut(bp, pc, bytes) ==
    [a \in (DOMAIN bp) \cup {pc} |-> IF a = pc THEN bytes ELSE bp[a]]

\* PtracePokeData(pid, pc, data): copies len(data) bytes to pc.
Poke(m, pc, data) == IF Len(data) = 0 THEN m ELSE [m EXCEPT ![pc] = data[1]]

bpCode == <<TrapByte>>

\* Mutant of SetBreakpoint: the byte is read after the trap byte was written.
SetBreakpointSavesTrap(m, bp, line, peekOk, pokeOk) ==
    IF ~LineMapped(line) \/ ~peekOk \/ ~pokeOk
    THEN [err |-> TRUE, mem |-> m, bp |-> bp]
    ELSE [err |-> FALSE,
          mem |-> Poke(m, LineToPC(line), bpCode),
          bp  |-> TablePut(bp, LineToPC(line), bpCode)]

(***************************************************************************)
(* Debugger.SetBreakpoint(pid, line): resolve the pc, peek the original    *)
(* byte, poke the trap byte, store the byte just read in the table.        *)
(* peekOk / pokeOk are the outcomes of the two ptrace calls.               *)
(***************************************************************************)
SetBreakpoint(m, bp, line, peekOk, pokeOk) ==
    IF ~LineMapped(line) \/ ~peekOk \/ ~pokeOk
    THEN [err |-> TRUE, mem |-> m, bp |-> bp]
    ELSE LET pc == LineToPC(line)
             original == <<m[pc]>>
         IN  [err |-> FALSE,
              mem |-> Poke(m, pc, bpCode),
              bp  |-> TablePut(bp, pc, original)]

\* Mutant of ClearBreakpoint: the saved byte is not written back.
ClearBreakpointNoRestore(m, bp, line, pokeOk) ==
    [err |-> ~LineMapped(line) \/ ~pokeOk, mem |-> m, bp |-> bp]

(***************************************************************************)
(* Debugger.ClearBreakpoint(pid, line): resolve the pc and poke            *)
(* d.Breakpoints[pc] back.  The table is left as it is.                    *)
(***************************************************************************)
ClearBreakpoint(m, bp, line, pokeOk) ==
    IF ~LineMapped(line) \/ ~pokeOk
    THEN [err |-> TRUE, mem |-> m, bp |-> bp]
    ELSE LET pc == LineToPC(line)
         IN  [err |-> FALSE,
              mem |-> Poke(m, pc, TableGet(bp, pc)),
              bp  |-> bp]

\* The traced thread executes the instruction at pc: a trap byte leaves the
\* program counter one byte past it, anything else follows the program.
Execute(m, pc) == IF m[pc] = TrapByte THEN pc + 1 ELSE NextPC(pc)

(***************************************************************************)
(* History records of the Debugger calls.                                  *)
(***************************************************************************)
NoCall ==
    [op |-> "none", line |-> 0, ok |-> FALSE, pc |-> 0, before |-> 0,
     entry |-> <<>>, planted |-> FALSE]
NoFrame == [line |-> 0, pc |-> 0, entry |-> <<>>, planted |-> FALSE]

CallRecord(op, line, ok) ==
    [op |-> op, line |-> line, ok |-> ok,
     pc |-> IF LineMapped(line) THEN LineToPC(line) ELSE 0,
     before |-> IF LineMapped(line) THEN mem[LineToPC(line)] ELSE 0,
     entry |-> IF LineMapped(line) THEN TableGet(Breakpoints, LineToPC(line)) ELSE <<>>,
     planted |-> FALSE]

NoteArmed(line, ok) ==
    IF ok /\ LineToPC(line) \notin DOMAIN armedOrig
    THEN TablePut(armedOrig, LineToPC(line), mem[LineToPC(line)])
    ELSE armedOrig

(***************************************************************************)
(* Server registry: Server.hubs guarded by Server.mu.  Every operation     *)
(* holds the lock for its whole body, so each is one step.                 *)
(***************************************************************************)
SessionIDs == 1 .. NSessionIDs
NoHub == 0
\* The two connections that may attach to the session.
Conns == {1, 2}
\* The session identifier of the hub that is modelled.
HubSession == 1

MapRemove(h, id) == [k \in (DOMAIN h) \ {id} |-> h[k]]

\* Mutant of SessionExists: the duplicate check is missing.
SessionExistsNever(h, id) == FALSE

\* CreateHub: if _, exists := s.hubs[sessionID]; exists
SessionExists(h, id) == id \in DOMAIN h

\* Mutant of CapacityReached: off by one (> for >=).
CapacityReachedOffByOne(h, max) == max > 0 /\ Cardinality(DOMAIN h) > max

\* CreateHub: s.config.MaxSessions > 0 && len(s.hubs) >= s.config.MaxSessions
CapacityReached(h, max) == max > 0 /\ Cardinality(DOMAIN h) >= max

\* The record of the last registry call; for CreateHub it keeps the map and
\* the started loops as they were when the call was made.
CallNote(op, id, err, hub) ==
    [op |-> op, id |-> id, err |-> err, hub |-> hub,
     hubsBefore |-> IF op = "create" THEN hubs ELSE <<>>,
     loopsBefore |-> IF op = "create" THEN hubLoops ELSE {}]

RegInit ==
    /\ hubs = <<>>
    /\ maxSessions \in {0, MaxSessions}
    /\ hubLoops = {}
    /\ liveHubs = {}
    /\ lastCall = [op |-> "none", id |-> 0, err |-> FALSE, hub |-> NoHub,
                   hubsBefore |-> <<>>, loopsBefore |-> {}]

(***************************************************************************)
(* Server.CreateHub(sessionID).                                            *)
(***************************************************************************)
CreateHubBody(id) ==
    /\ Cardinality(hubLoops) < MaxHubs
    /\ IF SessionExists(hubs, id) \/ CapacityReached(hubs, maxSessions)
       THEN /\ lastCall' = CallNote("create", id, TRUE, NoHub)
            /\ UNCHANGED <<hubs, hubLoops, liveHubs>>
       ELSE LET hub == Cardinality(hubLoops) + 1
            IN  /\ hubs' = TablePut(hubs, id, hub)
                /\ hubLoops' = hubLoops \cup {<<id, hub>>}
                /\ liveHubs' = liveHubs \cup {<<id, hub>>}
                /\ lastCall' = CallNote("create", id, FALSE, hub)
    /\ UNCHANGED maxSessions

CreateHub(id) == CreateHubBody(id) /\ UNCHANGED notReg

(***************************************************************************)
(* Server.GetHub(sessionID).                                               *)
(***************************************************************************)
GetHubBody(id) ==
    /\ lastCall' = IF id \in DOMAIN hubs
                   THEN CallNote("get", id, FALSE, hubs[id])
                   ELSE CallNote("get", id, TRUE, NoHub)
    /\ UNCHANGED <<hubs, maxSessions, hubLoops, liveHubs>>

GetHub(id) == GetHubBody(id) /\ UNCHANGED notReg

(***************************************************************************)
(* Server.removeHub(sessionID): the onShutdown callback of a hub created   *)
(* for that session.                                                       *)
(***************************************************************************)
removeHubBody(id) ==
    /\ \E e \in hubLoops : e[1] = id
    /\ hubs' = MapRemove(hubs, id)
    /\ liveHubs' = {e \in liveHubs : e[1] # id}
    /\ lastCall' = CallNote("remove", id, FALSE, NoHub)
    /\ UNCHANGED <<maxSessions, hubLoops>>

removeHub(id) == removeHubBody(id) /\ UNCHANGED notReg

\* Mutant of OnceFired: the Once never reports that it has fired.
OnceFiredNever(c) == FALSE

\* sync.Once: whether c.sendOnce has already run its function.
OnceFired(c) == sendOnce[c]

\* Connection.CloseSend on each connection of S:
\* c.sendOnce.Do(func() { close(c.send) }).
CloseSend(S) ==
    /\ sendClosed' = [c \in Conns |-> sendClosed[c] \/ (c \in S /\ ~OnceFired(c))]
    /\ closes' = [c \in Conns |->
                    IF c \in S /\ ~OnceFired(c) THEN closes[c] + 1 ELSE closes[c]]
    /\ sendOnce' = [c \in Conns |-> sendOnce[c] \/ c \in S]

(***************************************************************************)
(* Server.Shutdown: for every session entry, CloseSend and Close on each   *)
(* connection of its hub, then the entry is deleted.  The hub's own loop   *)
(* and its connections map are not touched.                                *)
(***************************************************************************)
Shutdown ==
    /\ LET closing == IF HubSession \in DOMAIN hubs THEN connections ELSE {}
       IN  /\ CloseSend(closing)
           /\ UNCHANGED removals
           /\ connOpen' = [c \in Conns |-> connOpen[c] /\ c \notin closing]
    /\ hubs' = <<>>
    /\ liveHubs' = {}
    /\ lastCall' = CallNote("shutdown", 0, FALSE, NoHub)
    /\ UNCHANGED <<maxSessions, hubLoops>>
    /\ UNCHANGED <<handler, readPump, writePump, send>>
    /\ UNCHANGED <<evtVars, stopVars, goVars, cliVars, engVars, loopVars, dbgVars, histVars>>

RegNext ==
    \/ \E id \in SessionIDs : CreateHub(id)
    \/ \E id \in SessionIDs : GetHub(id)
    \/ \E id \in SessionIDs : removeHub(id)
    \/ Shutdown

EngInit ==
    /\ mem = [a \in Addrs |-> TargetCode(a)]
    /\ Breakpoints = <<>>
    /\ rip = 0
    /\ engine = "stopped"
    /\ cause = "initial"
    /\ frame = NoFrame
    /\ armedOrig = <<>>
    /\ last = NoCall
    /\ prev = NoCall

(***************************************************************************)
(* A SetBreakpoint call on the stopped target.                             *)
(***************************************************************************)
SetBreakpointCall(line, peekOk, pokeOk) ==
    /\ engine = "stopped"
    /\ UNCHANGED notEng
    /\ LET r == SetBreakpoint(mem, Breakpoints, line, peekOk, pokeOk)
       IN  /\ mem' = r.mem
           /\ Breakpoints' = r.bp
           /\ armedOrig' = NoteArmed(line, ~r.err)
           /\ last' = CallRecord("set", line, ~r.err)
    /\ prev' = last
    /\ UNCHANGED <<rip, engine, cause, frame>>

(***************************************************************************)
(* A ClearBreakpoint call on the stopped target.                           *)
(***************************************************************************)
ClearBreakpointCall(line, pokeOk) ==
    /\ engine = "stopped"
    /\ UNCHANGED notEng
    /\ LET r == ClearBreakpoint(mem, Breakpoints, line, pokeOk)
       IN  /\ mem' = r.mem
           /\ Breakpoints' = r.bp
           /\ last' = CallRecord("clear", line, ~r.err)
    /\ prev' = last
    /\ UNCHANGED <<rip, engine, cause, frame, armedOrig>>

(***************************************************************************)
(* Debugger.Continue(pid), up to its blocking Wait4: read the registers,   *)
(* clear the breakpoint of the line at Rip - 1, rewind Rip, single-step.   *)
(* Every failure panics.                                                   *)
(***************************************************************************)
ContinueBegin(regsOk, pokeOk, setRegsOk, stepOk) ==
    /\ engine = "stopped"
    /\ UNCHANGED notEng
    /\ LET bpAddr == rip - 1
           line   == PCToLine(rip - 1)
           r      == ClearBreakpoint(mem, Breakpoints, line, pokeOk)
       IN  IF ~regsOk \/ r.err
           THEN /\ engine' = "panicked"
                /\ UNCHANGED <<mem, rip, frame>>
           ELSE /\ mem' = r.mem
                /\ IF ~setRegsOk
                   THEN engine' = "panicked" /\ UNCHANGED <<rip, frame>>
                   ELSE IF ~stepOk
                   THEN engine' = "panicked" /\ rip' = bpAddr /\ UNCHANGED frame
                   ELSE /\ engine' = "stepping"
                        /\ rip' = Execute(r.mem, bpAddr)
                        /\ frame' = [line |-> line, pc |-> bpAddr,
                                     entry |-> TableGet(Breakpoints, bpAddr),
                                     planted |-> /\ cause = "trap"
                                                 /\ bpAddr \in DOMAIN Breakpoints
                                                 /\ mem[bpAddr] = TrapByte]
    /\ last' = [NoCall EXCEPT !.op = "continuing"]
    /\ prev' = last
    /\ UNCHANGED <<Breakpoints, cause, armedOrig>>

(***************************************************************************)
(* Debugger.Continue(pid), from the return of Wait4: put the breakpoint    *)
(* back with SetBreakpoint and resume the target.                          *)
(***************************************************************************)
ContinueFinish(waitOk, peekOk, pokeOk, contOk) ==
    /\ engine = "stepping"
    /\ UNCHANGED notEng
    /\ LET r == SetBreakpoint(mem, Breakpoints, frame.line, peekOk, pokeOk)
       IN  IF ~waitOk \/ r.err
           THEN /\ engine' = "panicked"
                /\ last' = [NoCall EXCEPT !.op = "continue"]
                /\ prev' = last
                /\ UNCHANGED <<mem, Breakpoints, armedOrig>>
           ELSE /\ mem' = r.mem
                /\ Breakpoints' = r.bp
                /\ armedOrig' = NoteArmed(frame.line, TRUE)
                /\ last' = [op |-> "continue", line |-> frame.line, ok |-> contOk,
                            pc |-> frame.pc, before |-> mem[LineToPC(frame.line)],
                            entry |-> frame.entry, planted |-> frame.planted]
                /\ prev' = last
                /\ engine' = IF contOk THEN "running" ELSE "panicked"
    /\ frame' = NoFrame
    /\ UNCHANGED <<rip, cause>>

(***************************************************************************)
(* Debugger.SingleStep(pid): the thread runs one instruction and stops.    *)
(***************************************************************************)
SingleStepCall(stepOk) ==
    /\ engine = "stopped"
    /\ UNCHANGED notEng
    /\ IF stepOk
       THEN /\ rip' = Execute(mem, rip)
            /\ cause' = IF mem[rip] = TrapByte THEN "trap" ELSE "step"
            /\ UNCHANGED engine
       ELSE /\ engine' = "panicked"
            /\ UNCHANGED <<rip, cause>>
    /\ last' = [NoCall EXCEPT !.op = "step", !.ok = stepOk]
    /\ prev' = last
    /\ UNCHANGED <<mem, Breakpoints, frame, armedOrig>>

(***************************************************************************)
(* The resumed target runs one instruction; a trap byte stops it.          *)
(***************************************************************************)
TargetRun ==
    /\ engine = "running"
    /\ UNCHANGED notEng
    /\ rip' = Execute(mem, rip)
    /\ IF mem[rip] = TrapByte
       THEN engine' = "stopped" /\ cause' = "trap"
       ELSE UNCHANGED <<engine, cause>>
    /\ UNCHANGED <<mem, Breakpoints, frame, armedOrig, last, prev>>

(***************************************************************************)
(* initialBreakpointHit, "continue": PtraceCont from the initial stop.     *)
(***************************************************************************)
InitialContinue(contOk) ==
    /\ engine = "stopped"
    /\ UNCHANGED notEng
    /\ cause = "initial"
    /\ engine' = IF contOk THEN "running" ELSE "panicked"
    /\ UNCHANGED <<mem, Breakpoints, rip, cause, frame, armedOrig, last, prev>>

EngNext ==
    \/ \E contOk \in Bools : InitialContinue(contOk)
    \/ \E line \in Lines, peekOk \in Bools, pokeOk \in Bools :
           SetBreakpointCall(line, peekOk, pokeOk)
    \/ \E line \in Lines, pokeOk \in Bools : ClearBreakpointCall(line, pokeOk)
    \/ \E regsOk \in Bools, pokeOk \in Bools, setRegsOk \in Bools, stepOk \in Bools :
           ContinueBegin(regsOk, pokeOk, setRegsOk, stepOk)
    \/ \E waitOk \in Bools, peekOk \in Bools, pokeOk \in Bools, contOk \in Bools :
           ContinueFinish(waitOk, peekOk, pokeOk, contOk)
    \/ \E stepOk \in Bools : SingleStepCall(stepOk)
    \/ TargetRun

(***************************************************************************)
(* The Debugger operations as the engine's two stop handlers invoke them.  *)
(* initialBreakpointHit loops on its select: setBreakpoint (an error       *)
(* panics), continue, step (refused).  breakpointHit runs one select and   *)
(* returns to mainDebugLoop: continue is Debugger.Continue, step is        *)
(* Debugger.SingleStep, setBreakpoint logs an error and leaves the target  *)
(* stopped with the engine polling in mainDebugLoop ("polling").           *)
(***************************************************************************)
InitialSetBreakpoint(line, peekOk, pokeOk) ==
    /\ engine = "stopped"
    /\ cause = "initial"
    /\ UNCHANGED notEng
    /\ LET r == SetBreakpoint(mem, Breakpoints, line, peekOk, pokeOk)
       IN  /\ mem' = r.mem
           /\ Breakpoints' = r.bp
           /\ armedOrig' = NoteArmed(line, ~r.err)
           /\ last' = CallRecord("set", line, ~r.err)
           /\ engine' = IF r.err THEN "panicked" ELSE "stopped"
    /\ prev' = last
    /\ UNCHANGED <<rip, cause, frame>>

\* case "step" of initialBreakpointHit: a log line, and the loop goes on.
InitialStep ==
    /\ engine = "stopped"
    /\ cause = "initial"
    /\ UNCHANGED notEng
    /\ last' = [NoCall EXCEPT !.op = "initialStep"]
    /\ prev' = last
    /\ UNCHANGED <<mem, Breakpoints, rip, engine, cause, frame, armedOrig>>

TrapSetBreakpoint(line, peekOk, pokeOk) ==
    /\ engine = "stopped"
    /\ cause # "initial"
    /\ UNCHANGED notEng
    /\ LET r == SetBreakpoint(mem, Breakpoints, line, peekOk, pokeOk)
       IN  /\ mem' = r.mem
           /\ Breakpoints' = r.bp
           /\ armedOrig' = NoteArmed(line, ~r.err)
           /\ last' = CallRecord("set", line, ~r.err)
    /\ engine' = "polling"
    /\ prev' = last
    /\ UNCHANGED <<rip, cause, frame>>

TrapContinue(regsOk, pokeOk, setRegsOk, stepOk) ==
    /\ cause # "initial"
    /\ ContinueBegin(regsOk, pokeOk, setRegsOk, stepOk)

TrapStep(stepOk) ==
    /\ cause # "initial"
    /\ SingleStepCall(stepOk)

HandlersNext ==
    \/ \E line \in Lines, peekOk \in Bools, pokeOk \in Bools :
           InitialSetBreakpoint(line, peekOk, pokeOk)
    \/ InitialStep
    \/ \E contOk \in Bools : InitialContinue(contOk)
    \/ \E line \in Lines, peekOk \in Bools, pokeOk \in Bools :
           TrapSetBreakpoint(line, peekOk, pokeOk)
    \/ \E regsOk \in Bools, pokeOk \in Bools, setRegsOk \in Bools, stepOk \in Bools :
           TrapContinue(regsOk, pokeOk, setRegsOk, stepOk)
    \/ \E waitOk \in Bools, peekOk \in Bools, pokeOk \in Bools, contOk \in Bools :
           ContinueFinish(waitOk, peekOk, pokeOk, contOk)
    \/ \E stepOk \in Bools : TrapStep(stepOk)
    \/ TargetRun

(***************************************************************************)
(* One session: a Hub, the Connections attached to it, and the goroutines  *)
(* of its Debugger.  Channels are sequences; a buffered channel of         *)
(* capacity n accepts a send while it holds fewer than n elements.         *)
(***************************************************************************)
\* A message on h.events or on a send queue: its type, the state a
\* stateUpdate announces, its number in the order of the sends on h.events
\* and the number of the command it answers (0: none).
CmdMsg(type, state, n, cmd) == [type |-> type, state |-> state, n |-> n, cmd |-> cmd]
Msg(type, state, n) == CmdMsg(type, state, n, 0)

ChanFull(q, cap) == Len(q) >= cap

\* Mutant of ChanSend: the element is put at the front of the buffer.
ChanSendFront(q, m) == <<m>> \o q

\* ch <- m on a buffered channel with room.
ChanSend(q, m) == Append(q, m)

\* Mutant of ChanHead: the newest element is received.
ChanLast(q) == q[Len(q)]

\* <-ch on a non-empty buffered channel: the oldest element.
ChanHead(q) == Head(q)

\* Command envelopes a controller may send; "other" stands for an unknown
\* type and for a payload that fails to unmarshal (both are dropped).
CommandTypes == {"startDebug", "setBreakpoint", "continue", "stepOver", "exit", "other"}

HubInit ==
    /\ hubLoop = "none"
    /\ connections = {}
    /\ events = <<>>
    /\ commands = <<>>
    /\ idleExpired = FALSE
    /\ handler = [c \in Conns |-> "idle"]
    /\ readPump = [c \in Conns |-> "off"]
    /\ writePump = [c \in Conns |-> "off"]
    /\ connOpen = [c \in Conns |-> FALSE]
    /\ send = [c \in Conns |-> <<>>]
    /\ sendClosed = [c \in Conns |-> FALSE]
    /\ sendOnce = [c \in Conns |-> FALSE]
    /\ closes = [c \in Conns |-> 0]
    /\ removals = [c \in Conns |-> 0]
    /\ listener = "off"
    /\ dbg = "off"
    /\ target = "none"
    /\ DebugCommand = <<>>
    /\ EndDebugSession = <<>>
    /\ crashed = FALSE
    /\ nRead = 0
    /\ nStarts = 0
    /\ nEvents = 0
    /\ pushed = [c \in Conns |-> <<>>]
    /\ written = [c \in Conns |-> <<>>]
    /\ engineLog = <<>>
    /\ slowFound = {}
    /\ shutdownCalls = 0
    /\ BreakpointHit = <<>>
    /\ InitialBreakpointHit = <<>>
    /\ relay = <<>>
    /\ resumedBy = 0

\* Hub.shutdown: onShutdown is Server.removeHub, set by CreateHub.
shutdown ==
    /\ shutdownCalls' = shutdownCalls + 1
    /\ removeHubBody(HubSession)

\* An unrecovered panic in any goroutine ends the process.
Panic ==
    /\ crashed' = TRUE
    /\ UNCHANGED <<nRead, nStarts, nEvents, pushed, written, engineLog,
                   slowFound, shutdownCalls>>

(***************************************************************************)
(* Server.getOrCreateSession up to hub.Register: without a session         *)
(* parameter a hub is created, with one the hub is looked up; then the     *)
(* Connection is made and its two pumps are started.  Connections are      *)
(* interchangeable: they are numbered in the order they arrive.            *)
(***************************************************************************)
Connect(c, sessionProvided) ==
    /\ ~crashed
    /\ handler[c] = "idle"
    /\ \A d \in Conns : d < c => handler[d] # "idle"
    /\ IF sessionProvided
       THEN /\ GetHubBody(HubSession)
            /\ UNCHANGED hubLoop
       ELSE /\ hubLoop = "none"
            /\ CreateHubBody(HubSession)
            /\ hubLoop' = IF lastCall'.err THEN hubLoop ELSE "run"
    /\ IF lastCall'.err
       THEN /\ handler' = [handler EXCEPT ![c] = "done"]
            /\ UNCHANGED <<readPump, writePump, connOpen>>
       ELSE /\ handler' = [handler EXCEPT ![c] = "register"]
            /\ readPump' = [readPump EXCEPT ![c] = "reading"]
            /\ writePump' = [writePump EXCEPT ![c] = "running"]
            /\ connOpen' = [connOpen EXCEPT ![c] = TRUE]
    /\ UNCHANGED <<connections, events, commands, idleExpired, send, sendClosed,
                   sendOnce, closes, removals>>
    /\ UNCHANGED <<evtVars, stopVars, goVars, cliVars, engVars, dbgVars, histVars>>

(***************************************************************************)
(* getOrCreateSession: client.send <- sessionStarted, a blocking send.     *)
(* A send on a closed channel panics.                                      *)
(***************************************************************************)
SendAck(c) ==
    /\ ~crashed
    /\ handler[c] = "ack"
    /\ IF sendClosed[c]
       THEN /\ Panic
            /\ UNCHANGED connVars
       ELSE /\ ~ChanFull(send[c], clientSendBufferSize)
            /\ send' = [send EXCEPT ![c] = ChanSend(@, Msg("sessionStarted", "none", 0))]
            /\ pushed' = [pushed EXCEPT ![c] = Append(@, Msg("sessionStarted", "none", 0))]
            /\ handler' = [handler EXCEPT ![c] = "done"]
            /\ UNCHANGED <<readPump, writePump, connOpen, sendClosed,
                           sendOnce, closes, removals>>
            /\ UNCHANGED <<crashed, nRead, nStarts, nEvents, written, engineLog,
                           slowFound, shutdownCalls>>
    /\ UNCHANGED <<evtVars, stopVars, goVars, cliVars, engVars, regVars, loopVars, dbgVars>>

(***************************************************************************)
(* Connection.ReadPump: one envelope read and handed to hub.SendCommand    *)
(* (a blocking send on Hub.commands).                                      *)
(***************************************************************************)
ReadMessage(c, type) ==
    /\ ~crashed
    /\ readPump[c] = "reading"
    /\ connOpen[c]
    /\ nRead < MaxCmds
    /\ type = "startDebug" => nStarts = 0
    /\ ~ChanFull(commands, commandBufferSize)
    /\ commands' = ChanSend(commands, [conn |-> c, n |-> nRead + 1, type |-> type,
                                       decodes |-> TRUE])
    /\ nRead' = nRead + 1
    /\ nStarts' = IF type = "startDebug" THEN nStarts + 1 ELSE nStarts
    /\ UNCHANGED <<hubLoop, connections, events, idleExpired>>
    /\ UNCHANGED <<crashed, nEvents, pushed, written, engineLog, slowFound,
                   shutdownCalls>>
    /\ UNCHANGED <<evtVars, stopVars, goVars, cliVars, engVars, regVars, connVars, dbgVars>>

\* ReadPump reads an envelope of a known type whose data does not decode
\* into the command struct of that type: the envelope itself is valid JSON
\* and goes to Hub.commands like any other.
ReadUndecodable(c, type) ==
    /\ ~crashed
    /\ readPump[c] = "reading"
    /\ connOpen[c]
    /\ nRead < MaxCmds
    /\ ~ChanFull(commands, commandBufferSize)
    /\ commands' = ChanSend(commands, [conn |-> c, n |-> nRead + 1, type |-> type,
                                       decodes |-> FALSE])
    /\ nRead' = nRead + 1
    /\ UNCHANGED <<hubLoop, connections, events, idleExpired>>
    /\ UNCHANGED <<crashed, nStarts, nEvents, pushed, written, engineLog, slowFound,
                   shutdownCalls>>
    /\ UNCHANGED <<evtVars, stopVars, goVars, cliVars, engVars, regVars, connVars, dbgVars>>

\* ReadJSON returns an error (the peer went away, or the conn was closed):
\* the loop breaks and the deferred hub.Unregister is next.
ReadError(c) ==
    /\ ~crashed
    /\ readPump[c] = "reading"
    /\ readPump' = [readPump EXCEPT ![c] = "unregister"]
    /\ UNCHANGED <<handler, writePump, connOpen, send, sendClosed,
                   sendOnce, closes, removals>>
    /\ UNCHANGED <<evtVars, stopVars, goVars, cliVars, engVars, regVars, loopVars, dbgVars, histVars>>

(***************************************************************************)
(* Connection.WritePump: one message ranged from c.send and written; a     *)
(* write error returns (the deferred closeConn runs).                      *)
(***************************************************************************)
WriteMessage(c, ok) ==
    /\ ~crashed
    /\ writePump[c] = "running"
    /\ send[c] # <<>>
    /\ ok => connOpen[c]
    /\ send' = [send EXCEPT ![c] = Tail(@)]
    /\ IF ok
       THEN /\ written' = [written EXCEPT ![c] = Append(@, ChanHead(send[c]))]
            /\ UNCHANGED <<writePump, connOpen>>
       ELSE /\ writePump' = [writePump EXCEPT ![c] = "failed"]
            /\ connOpen' = [connOpen EXCEPT ![c] = FALSE]
            /\ UNCHANGED written
    /\ UNCHANGED <<handler, readPump, sendClosed,
                   sendOnce, closes, removals>>
    /\ UNCHANGED <<crashed, nRead, nStarts, nEvents, pushed, engineLog,
                   slowFound, shutdownCalls>>
    /\ UNCHANGED <<evtVars, stopVars, goVars, cliVars, engVars, regVars, loopVars, dbgVars>>

\* The range over c.send ends: the channel is closed and drained.  The
\* close frame is written and the deferred closeConn runs.
WriteClose(c) ==
    /\ ~crashed
    /\ writePump[c] = "running"
    /\ send[c] = <<>>
    /\ sendClosed[c]
    /\ writePump' = [writePump EXCEPT ![c] = "closed"]
    /\ connOpen' = [connOpen EXCEPT ![c] = FALSE]
    /\ UNCHANGED <<handler, readPump, send, sendClosed,
                   sendOnce, closes, removals>>
    /\ UNCHANGED <<evtVars, stopVars, goVars, cliVars, engVars, regVars, loopVars, dbgVars, histVars>>

(***************************************************************************)
(* Hub.Run, one action for each case of its select.                        *)
(***************************************************************************)
\* case client := <-h.register (rendezvous with hub.Register in the handler).
HubRegister(c) ==
    /\ ~crashed
    /\ hubLoop = "run"
    /\ handler[c] = "register"
    /\ connections' = connections \cup {c}
    /\ idleExpired' = FALSE
    /\ handler' = [handler EXCEPT ![c] = "ack"]
    /\ UNCHANGED <<hubLoop, events, commands>>
    /\ UNCHANGED <<readPump, writePump, connOpen, send, sendClosed,
                   sendOnce, closes, removals>>
    /\ UNCHANGED <<evtVars, stopVars, goVars, cliVars, engVars, regVars, dbgVars, histVars>>

\* Mutant of NoneLeft: the emptiness test never succeeds.
NoneLeftNever(s) == Cardinality(s) < 0

\* len(h.connections) == 0
NoneLeft(s) == s = {}

\* case client := <-h.unregister (rendezvous with the deferred
\* hub.Unregister of ReadPump, which then closes the conn).
HubUnregister(c) ==
    /\ ~crashed
    /\ hubLoop = "run"
    /\ readPump[c] = "unregister"
    /\ readPump' = [readPump EXCEPT ![c] = "done"]
    /\ connOpen' = [connOpen EXCEPT ![c] = FALSE]
    /\ IF c \in connections
       THEN /\ connections' = connections \ {c}
            /\ removals' = [removals EXCEPT ![c] = @ + 1]
            /\ CloseSend({c})
            /\ IF NoneLeft(connections \ {c})
               THEN /\ shutdown
                    /\ hubLoop' = "returned"
               ELSE UNCHANGED <<hubLoop, regVars, shutdownCalls>>
       ELSE UNCHANGED <<connections, sendClosed, sendOnce, closes,
                       removals, hubLoop, regVars, shutdownCalls>>
    /\ UNCHANGED <<events, commands, idleExpired, handler, writePump, send>>
    /\ UNCHANGED <<crashed, nRead, nStarts, nEvents, pushed, written, engineLog,
                   slowFound>>
    /\ UNCHANGED <<evtVars, stopVars, goVars, cliVars, engVars, dbgVars>>

\* time.Since(h.lastActivity) comes to exceed h.idleTimeout (a positive
\* timeout; with idleTimeout = 0 the tick never shuts the hub down).
TimePasses ==
    /\ ~crashed
    /\ hubLoop = "run"
    /\ ~idleExpired
    /\ idleExpired' = TRUE
    /\ UNCHANGED <<hubLoop, connections, events, commands>>
    /\ UNCHANGED <<evtVars, stopVars, goVars, cliVars, engVars, regVars, connVars, dbgVars, histVars>>

\* The same while no connection is attached: the only time the tick compares
\* the clock with h.lastActivity (a registration resets it).
TimePassesUnattended == connections = {} /\ TimePasses

\* Mutant of IdleShutdownDue: the attached connections are not looked at.
IdleShutdownDueUnattended == idleExpired

\* len(h.connections) == 0 and time.Since(h.lastActivity) > h.idleTimeout
IdleShutdownDue == connections = {} /\ idleExpired

\* case <-ticker.C, when the session is idle: shutdown and return.  A tick
\* that finds the session not idle changes nothing.
HubTick ==
    /\ ~crashed
    /\ hubLoop = "run"
    /\ IdleShutdownDue
    /\ shutdown
    /\ hubLoop' = "returned"
    /\ UNCHANGED <<connections, events, commands, idleExpired>>
    /\ UNCHANGED <<crashed, nRead, nStarts, nEvents, pushed, written, engineLog,
                   slowFound>>
    /\ UNCHANGED <<evtVars, stopVars, goVars, cliVars, engVars, connVars, dbgVars>>

\* Connections whose send queue cannot take one more message.
SlowConnections == {c \in connections : ChanFull(send[c], clientSendBufferSize)}

\* case event := <-h.events: a non-blocking push to every connection, then
\* h.Unregister(connection) for each slow one.  Unregister is a send on the
\* unbuffered h.unregister, whose only receiver is this loop: the loop
\* stays blocked in it.  A push to a queue that Server.Shutdown has closed
\* panics, whichever queues were pushed before it.
HubEvent ==
    /\ ~crashed
    /\ hubLoop = "run"
    /\ events # <<>>
    /\ events' = Tail(events)
    /\ idleExpired' = FALSE
    /\ IF \E c \in connections : sendClosed[c]
       THEN /\ Panic
            /\ UNCHANGED <<hubLoop, send>>
       ELSE /\ send' = [c \in Conns |->
                         IF c \in connections \ SlowConnections
                         THEN ChanSend(send[c], ChanHead(events)) ELSE send[c]]
            /\ pushed' = [c \in Conns |->
                           IF c \in connections \ SlowConnections
                           THEN Append(pushed[c], ChanHead(events)) ELSE pushed[c]]
            /\ slowFound' = slowFound \cup SlowConnections
            /\ hubLoop' = IF SlowConnections = {} THEN "run" ELSE "unregisterBlocked"
            /\ UNCHANGED <<crashed, nRead, nStarts, nEvents, written, engineLog,
                           shutdownCalls>>
    /\ UNCHANGED <<connections, commands>>
    /\ UNCHANGED <<handler, readPump, writePump, connOpen, sendClosed,
                   sendOnce, closes, removals>>
    /\ UNCHANGED <<evtVars, stopVars, goVars, cliVars, engVars, regVars, dbgVars>>

\* The DebugCommand.Type handleCommand builds for a command envelope.
DebugCommandType(type) ==
    CASE type = "continue" -> "continue"
      [] type = "stepOver" -> "step"
      [] type = "setBreakpoint" -> "setBreakpoint"
      [] type = "exit" -> "quit"
      [] OTHER -> "none"

\* Mutant of CommandKind: the error of json.Unmarshal is not looked at.
CommandKindUnchecked(cmd) == cmd.type

\* The case of handleCommand that acts on an envelope: the case of its
\* type when json.Unmarshal(cmd.Data, ...) returns nil; when it fails the
\* case logs and returns.
CommandKind(cmd) == IF cmd.decodes THEN cmd.type ELSE "undecodable"

\* Hub.sendCommandToDebugger: a non-blocking send, dropped when full.
sendCommandToDebugger(ch, cmd) ==
    IF ChanFull(ch, debuggerChanSize) THEN ch ELSE ChanSend(ch, cmd)

\* case cmd := <-h.commands: handleCommand.  continue, stepOver and exit
\* first call sendStateUpdate, a blocking send on h.events made by the
\* loop that drains it.
HubCommand ==
    /\ ~crashed
    /\ hubLoop = "run"
    /\ commands # <<>>
    /\ commands' = Tail(commands)
    /\ LET cmd == ChanHead(commands)
           kind == CommandKind(cmd)
           fwd == [conn |-> cmd.conn, n |-> cmd.n, type |-> DebugCommandType(kind)]
       IN  CASE kind = "startDebug" ->
                  /\ listener' = "listening"
                  /\ dbg' = "starting"
                  /\ UNCHANGED <<hubLoop, events, nEvents, DebugCommand>>
             [] kind \in {"continue", "stepOver", "exit"} ->
                  IF ChanFull(events, eventBufferSize)
                  THEN /\ hubLoop' = "broadcastBlocked"
                       /\ UNCHANGED <<events, nEvents, DebugCommand, listener, dbg>>
                  ELSE /\ events' = ChanSend(events,
                                       CmdMsg("stateUpdate",
                                              IF kind = "exit" THEN "ready" ELSE "executing",
                                              nEvents + 1, cmd.n))
                       /\ nEvents' = nEvents + 1
                       /\ DebugCommand' = sendCommandToDebugger(DebugCommand, fwd)
                       /\ UNCHANGED <<hubLoop, listener, dbg>>
             [] kind = "setBreakpoint" ->
                  /\ DebugCommand' = sendCommandToDebugger(DebugCommand, fwd)
                  /\ UNCHANGED <<hubLoop, events, nEvents, listener, dbg>>
             [] OTHER ->
                  UNCHANGED <<hubLoop, events, nEvents, DebugCommand, listener, dbg>>
    /\ UNCHANGED <<connections, idleExpired>>
    /\ UNCHANGED <<target, EndDebugSession>>
    /\ UNCHANGED <<crashed, nRead, nStarts, pushed, written, engineLog,
                   slowFound, shutdownCalls>>
    /\ UNCHANGED <<evtVars, stopVars, goVars, cliVars, engVars, regVars, connVars>>

\* case <-h.debugger.EndDebugSession: shutdown, and the loop goes on.
HubEndSession ==
    /\ ~crashed
    /\ hubLoop = "run"
    /\ EndDebugSession # <<>>
    /\ EndDebugSession' = Tail(EndDebugSession)
    /\ shutdown
    /\ UNCHANGED <<listener, dbg, target, DebugCommand>>
    /\ UNCHANGED <<crashed, nRead, nStarts, nEvents, pushed, written, engineLog,
                   slowFound>>
    /\ UNCHANGED <<evtVars, stopVars, goVars, cliVars, engVars, loopVars, connVars>>

(***************************************************************************)
(* Hub.Broadcast(event): h.events <- event, a blocking send.  In the       *)
(* program the caller is listenForDebuggerEvents, relaying what the        *)
(* engine reports; the events differ by their serial number.               *)
(***************************************************************************)
Broadcast ==
    /\ ~crashed
    /\ hubLoop # "none"
    /\ nEvents < MaxEvents
    /\ ~ChanFull(events, eventBufferSize)
    /\ events' = ChanSend(events, Msg("breakpointHit", "none", nEvents + 1))
    /\ nEvents' = nEvents + 1
    /\ UNCHANGED <<hubLoop, connections, commands, idleExpired>>
    /\ UNCHANGED <<crashed, nRead, nStarts, pushed, written, engineLog,
                   slowFound, shutdownCalls>>
    /\ UNCHANGED <<evtVars, stopVars, goVars, cliVars, engVars, regVars, connVars, dbgVars>>

(***************************************************************************)
(* The Debugger goroutine started by startDebug, seen from the hub: where  *)
(* it receives from DebugCommand and EndDebugSession and where it signals  *)
(* the end of the session.  Every ptrace and wait call succeeds here; the  *)
(* breakpoint table they act on is the subject of SpecEngine.              *)
(***************************************************************************)
\* select { case d.EndDebugSession <- true: default: }
SignalEnd(ch) == IF ChanFull(ch, debuggerChanSize) THEN ch ELSE ChanSend(ch, TRUE)

\* StartWithDebug up to initialBreakpointHit: the target is launched and
\* stops before its first instruction.
EngineStart ==
    /\ ~crashed
    /\ dbg = "starting"
    /\ dbg' = "initial"
    /\ target' = "stopped"
    /\ UNCHANGED <<listener, DebugCommand, EndDebugSession>>
    /\ UNCHANGED <<evtVars, stopVars, goVars, cliVars, engVars, regVars, loopVars, connVars, histVars>>

\* Mutant of ReturnsFromInitial: a step leaves the initial stop as well.
ReturnsFromInitialOnStep(type) == type \in {"continue", "quit", "step"}

\* The cases of the switch in initialBreakpointHit that end in a return:
\* continue and quit.  setBreakpoint, step and an unknown type fall out of
\* the switch and the for loop goes round.
ReturnsFromInitial(type) == type \in {"continue", "quit"}

\* One round of the select loop of initialBreakpointHit: setBreakpoint and
\* step stay in the loop, continue resumes the target, quit is StopDebug
\* (detach, signal the end); an end signal leaves the loop.
EngineInitial ==
    /\ ~crashed
    /\ dbg = "initial"
    /\ \/ /\ DebugCommand # <<>>
          /\ DebugCommand' = Tail(DebugCommand)
          /\ engineLog' = Append(engineLog, ChanHead(DebugCommand))
          /\ LET cmd == ChanHead(DebugCommand)
             IN  /\ dbg' = IF ReturnsFromInitial(cmd.type) THEN "loop" ELSE "initial"
                 /\ target' = CASE cmd.type = "continue" -> "running"
                                [] cmd.type = "quit" -> "detached"
                                [] OTHER -> target
                 /\ EndDebugSession' = IF cmd.type = "quit"
                                       THEN SignalEnd(EndDebugSession)
                                       ELSE EndDebugSession
          /\ UNCHANGED <<crashed, nRead, nStarts, nEvents, pushed, written,
                         slowFound, shutdownCalls>>
       \/ /\ EndDebugSession # <<>>
          /\ EndDebugSession' = Tail(EndDebugSession)
          /\ dbg' = "loop"
          /\ UNCHANGED <<DebugCommand, target, histVars>>
    /\ UNCHANGED listener
    /\ UNCHANGED <<evtVars, stopVars, goVars, cliVars, engVars, regVars, loopVars, connVars>>

\* Outcomes of Wait4(-pgid, WNOHANG) that change something.
WaitOutcomes == {"error", "exited", "trap"}

\* The end-of-session check that follows initialBreakpointHit and opens
\* every round of mainDebugLoop, then the wait: an error returns, the exit
\* of the target signals the end and returns, a SIGTRAP stop enters
\* breakpointHit.
EngineLoop(outcome) ==
    /\ ~crashed
    /\ dbg = "loop"
    /\ IF EndDebugSession # <<>>
       THEN /\ outcome = "error"
            /\ EndDebugSession' = Tail(EndDebugSession)
            /\ dbg' = "done"
            /\ UNCHANGED target
       ELSE CASE outcome = "error" ->
                   /\ dbg' = "done"
                   /\ UNCHANGED <<target, EndDebugSession>>
              [] outcome = "exited" ->
                   /\ target \in {"running", "detached"}
                   /\ target' = "exited"
                   /\ EndDebugSession' = SignalEnd(EndDebugSession)
                   /\ dbg' = "done"
              [] outcome = "trap" ->
                   /\ target = "running"
                   /\ target' = "stopped"
                   /\ dbg' = "trapped"
                   /\ UNCHANGED EndDebugSession
    /\ UNCHANGED <<listener, DebugCommand>>
    /\ UNCHANGED <<evtVars, stopVars, goVars, cliVars, engVars, regVars, loopVars, connVars, histVars>>

\* breakpointHit: the single select on DebugCommand and EndDebugSession;
\* whatever is received, control returns to mainDebugLoop.  continue and
\* step resume the target, setBreakpoint leaves it stopped, quit is
\* StopDebug.
EngineTrapped ==
    /\ ~crashed
    /\ dbg = "trapped"
    /\ \/ /\ DebugCommand # <<>>
          /\ DebugCommand' = Tail(DebugCommand)
          /\ engineLog' = Append(engineLog, ChanHead(DebugCommand))
          /\ LET cmd == ChanHead(DebugCommand)
             IN  /\ target' = CASE cmd.type = "setBreakpoint" -> target
                                [] cmd.type = "quit" -> "detached"
                                [] OTHER -> "running"
                 /\ EndDebugSession' = IF cmd.type = "quit"
                                       THEN SignalEnd(EndDebugSession)
                                       ELSE EndDebugSession
          /\ UNCHANGED <<crashed, nRead, nStarts, nEvents, pushed, written,
                         slowFound, shutdownCalls>>
       \/ /\ EndDebugSession # <<>>
          /\ EndDebugSession' = Tail(EndDebugSession)
          /\ UNCHANGED <<DebugCommand, target, histVars>>
    /\ dbg' = "loop"
    /\ UNCHANGED listener
    /\ UNCHANGED <<evtVars, stopVars, goVars, cliVars, engVars, regVars, loopVars, connVars>>

\* listenForDebuggerEvents, case <-h.debugger.EndDebugSession: the listener
\* takes the signal and returns.
ListenerEnd ==
    /\ ~crashed
    /\ listener = "listening"
    /\ EndDebugSession # <<>>
    /\ EndDebugSession' = Tail(EndDebugSession)
    /\ listener' = "done"
    /\ UNCHANGED <<dbg, target, DebugCommand>>
    /\ UNCHANGED <<evtVars, stopVars, goVars, cliVars, engVars, regVars, loopVars, connVars, histVars>>

(***************************************************************************)
(* The same Debugger goroutine and listener with the channels between      *)
(* them: the engine reports its stops on InitialBreakpointHit and          *)
(* BreakpointHit (blocking sends), listenForDebuggerEvents receives them   *)
(* and broadcasts the typed event and a stateUpdate(breakpoint).  The      *)
(* actions above leave the reports out; these are the steps of SpecEvents. *)
(***************************************************************************)
\* StartWithDebug up to the select loop of initialBreakpointHit: the target
\* is launched, stops before its first instruction and the stop is reported
\* (d.InitialBreakpointHit <- event).
StartWithDebug ==
    /\ ~crashed
    /\ dbg = "starting"
    /\ ~ChanFull(InitialBreakpointHit, debuggerChanSize)
    /\ InitialBreakpointHit' = ChanSend(InitialBreakpointHit, [cmd |-> 0])
    /\ dbg' = "initial"
    /\ target' = "stopped"
    /\ UNCHANGED <<listener, DebugCommand, EndDebugSession>>
    /\ UNCHANGED <<BreakpointHit, relay, resumedBy>>
    /\ UNCHANGED <<stopVars, goVars, cliVars, engVars, regVars, loopVars, connVars, histVars>>

\* One round of the select loop of initialBreakpointHit; a continue resumes
\* the target and is remembered as the command the next stop answers.
initialBreakpointHit ==
    /\ ~crashed
    /\ dbg = "initial"
    /\ \/ /\ DebugCommand # <<>>
          /\ DebugCommand' = Tail(DebugCommand)
          /\ engineLog' = Append(engineLog, ChanHead(DebugCommand))
          /\ LET cmd == ChanHead(DebugCommand)
             IN  /\ dbg' = IF ReturnsFromInitial(cmd.type) THEN "loop" ELSE "initial"
                 /\ target' = CASE cmd.type = "continue" -> "running"
                                [] cmd.type = "quit" -> "detached"
                                [] OTHER -> target
                 /\ resumedBy' = IF cmd.type = "continue" THEN cmd.n ELSE resumedBy
                 /\ EndDebugSession' = IF cmd.type = "quit"
                                       THEN SignalEnd(EndDebugSession)
                                       ELSE EndDebugSession
          /\ UNCHANGED <<crashed, nRead, nStarts, nEvents, pushed, written,
                         slowFound, shutdownCalls>>
       \/ /\ EndDebugSession # <<>>
          /\ EndDebugSession' = Tail(EndDebugSession)
          /\ dbg' = "loop"
          /\ UNCHANGED <<DebugCommand, target, resumedBy, histVars>>
    /\ UNCHANGED listener
    /\ UNCHANGED <<BreakpointHit, InitialBreakpointHit, relay>>
    /\ UNCHANGED <<stopVars, goVars, cliVars, engVars, regVars, loopVars, connVars>>

\* One round of mainDebugLoop; a SIGTRAP stop enters breakpointHit.
mainDebugLoop(outcome) ==
    /\ ~crashed
    /\ dbg = "loop"
    /\ IF EndDebugSession # <<>>
       THEN /\ outcome = "error"
            /\ EndDebugSession' = Tail(EndDebugSession)
            /\ dbg' = "done"
            /\ UNCHANGED target
       ELSE CASE outcome = "error" ->
                   /\ dbg' = "done"
                   /\ UNCHANGED <<target, EndDebugSession>>
              [] outcome = "exited" ->
                   /\ target \in {"running", "detached"}
                   /\ target' = "exited"
                   /\ EndDebugSession' = SignalEnd(EndDebugSession)
                   /\ dbg' = "done"
              [] outcome = "trap" ->
                   /\ target = "running"
                   /\ target' = "stopped"
                   /\ dbg' = "reporting"
                   /\ UNCHANGED EndDebugSession
    /\ UNCHANGED <<listener, DebugCommand>>
    /\ UNCHANGED <<evtVars, stopVars, goVars, cliVars, engVars, regVars, loopVars, connVars, histVars>>

\* breakpointHit: d.BreakpointHit <- event, the stop of the run that the
\* command resumedBy started.
breakpointHit ==
    /\ ~crashed
    /\ dbg = "reporting"
    /\ ~ChanFull(BreakpointHit, debuggerChanSize)
    /\ BreakpointHit' = ChanSend(BreakpointHit, [cmd |-> resumedBy])
    /\ dbg' = "trapped"
    /\ UNCHANGED <<listener, target, DebugCommand, EndDebugSession>>
    /\ UNCHANGED <<InitialBreakpointHit, relay, resumedBy>>
    /\ UNCHANGED <<stopVars, goVars, cliVars, engVars, regVars, loopVars, connVars, histVars>>

\* breakpointHit: the select that follows the report.  continue and step
\* resume the target, setBreakpoint leaves it stopped, quit is StopDebug.
breakpointHitSelect ==
    /\ ~crashed
    /\ dbg = "trapped"
    /\ \/ /\ DebugCommand # <<>>
          /\ DebugCommand' = Tail(DebugCommand)
          /\ engineLog' = Append(engineLog, ChanHead(DebugCommand))
          /\ LET cmd == ChanHead(DebugCommand)
             IN  /\ target' = CASE cmd.type = "setBreakpoint" -> target
                                [] cmd.type = "quit" -> "detached"
                                [] OTHER -> "running"
                 /\ resumedBy' = IF cmd.type \in {"setBreakpoint", "quit"}
                                 THEN resumedBy ELSE cmd.n
                 /\ EndDebugSession' = IF cmd.type = "quit"
                                       THEN SignalEnd(EndDebugSession)
                                       ELSE EndDebugSession
          /\ UNCHANGED <<crashed, nRead, nStarts, nEvents, pushed, written,
                         slowFound, shutdownCalls>>
       \/ /\ EndDebugSession # <<>>
          /\ EndDebugSession' = Tail(EndDebugSession)
          /\ UNCHANGED <<DebugCommand, target, resumedBy, histVars>>
    /\ dbg' = "loop"
    /\ UNCHANGED listener
    /\ UNCHANGED <<BreakpointHit, InitialBreakpointHit, relay>>
    /\ UNCHANGED <<stopVars, goVars, cliVars, engVars, regVars, loopVars, connVars>>

\* listenForDebuggerEvents, case bpEvent := <-h.debugger.BreakpointHit: the
\* two messages it will Broadcast.
ListenerHit ==
    /\ ~crashed
    /\ listener = "listening"
    /\ relay = <<>>
    /\ BreakpointHit # <<>>
    /\ BreakpointHit' = Tail(BreakpointHit)
    /\ relay' = <<CmdMsg("breakpointHit", "none", 0, ChanHead(BreakpointHit).cmd),
                  CmdMsg("stateUpdate", "breakpoint", 0, ChanHead(BreakpointHit).cmd)>>
    /\ UNCHANGED <<InitialBreakpointHit, resumedBy>>
    /\ UNCHANGED <<stopVars, goVars, cliVars, engVars, regVars, loopVars, connVars, dbgVars, histVars>>

\* case initialBpEvent := <-h.debugger.InitialBreakpointHit
ListenerInitial ==
    /\ ~crashed
    /\ listener = "listening"
    /\ relay = <<>>
    /\ InitialBreakpointHit # <<>>
    /\ InitialBreakpointHit' = Tail(InitialBreakpointHit)
    /\ relay' = <<CmdMsg("initialBreakpoint", "none", 0, 0),
                  CmdMsg("stateUpdate", "breakpoint", 0, 0)>>
    /\ UNCHANGED <<BreakpointHit, resumedBy>>
    /\ UNCHANGED <<stopVars, goVars, cliVars, engVars, regVars, loopVars, connVars, dbgVars, histVars>>

\* h.Broadcast(message) of the listener's next message: h.events <- message,
\* a blocking send.
ListenerBroadcast ==
    /\ ~crashed
    /\ relay # <<>>
    /\ ~ChanFull(events, eventBufferSize)
    /\ events' = ChanSend(events, CmdMsg(Head(relay).type, Head(relay).state,
                                         nEvents + 1, Head(relay).cmd))
    /\ nEvents' = nEvents + 1
    /\ relay' = Tail(relay)
    /\ UNCHANGED <<hubLoop, connections, commands, idleExpired>>
    /\ UNCHANGED <<BreakpointHit, InitialBreakpointHit, resumedBy>>
    /\ UNCHANGED <<crashed, nRead, nStarts, pushed, written, engineLog,
                   slowFound, shutdownCalls>>
    /\ UNCHANGED <<stopVars, goVars, cliVars, engVars, regVars, connVars, dbgVars>>

\* case <-h.debugger.EndDebugSession: the listener takes the signal, has
\* sendStateUpdate(StateReady) to do and returns after it.
ListenerEnding ==
    /\ ~crashed
    /\ listener = "listening"
    /\ relay = <<>>
    /\ EndDebugSession # <<>>
    /\ EndDebugSession' = Tail(EndDebugSession)
    /\ listener' = "done"
    /\ relay' = <<CmdMsg("stateUpdate", "ready", 0, 0)>>
    /\ UNCHANGED <<dbg, target, DebugCommand>>
    /\ UNCHANGED <<BreakpointHit, InitialBreakpointHit, resumedBy>>
    /\ UNCHANGED <<stopVars, goVars, cliVars, engVars, regVars, loopVars, connVars, histVars>>

\* The send path: connections, their pumps and the hub's broadcast.
SendNext ==
    \/ \E c \in Conns, sessionProvided \in Bools : Connect(c, sessionProvided)
    \/ \E c \in Conns : HubRegister(c)
    \/ \E c \in Conns : SendAck(c)
    \/ \E c \in Conns : ReadError(c)
    \/ \E c \in Conns : HubUnregister(c)
    \/ \E c \in Conns, ok \in Bools : WriteMessage(c, ok)
    \/ \E c \in Conns : WriteClose(c)
    \/ TimePassesUnattended
    \/ HubTick
    \/ HubEvent
    \/ Broadcast
    \/ Shutdown

\* The command path: read pumps, the hub's loop and the engine.  Left out
\* is what can only stop the hub's loop or add events to h.events (ticks,
\* attached connections and their queues, the listener's broadcasts): the
\* commands, the DebugCommand channel and what the engine receives do not
\* depend on them otherwise.
CommandNext ==
    \/ \E c \in Conns, sessionProvided \in Bools : Connect(c, sessionProvided)
    \/ \E c \in Conns, type \in CommandTypes : ReadMessage(c, type)
    \/ \E c \in Conns : ReadError(c)
    \/ \E c \in Conns : HubUnregister(c)
    \/ HubEvent
    \/ HubCommand
    \/ HubEndSession
    \/ EngineStart
    \/ EngineInitial
    \/ \E outcome \in WaitOutcomes : EngineLoop(outcome)
    \/ EngineTrapped
    \/ ListenerEnd

\* Envelopes of every kind, decodable or not, up to the engine's initial
\* stop.
DecodeNext ==
    \/ \E c \in Conns : Connect(c, FALSE)
    \/ \E c \in Conns : HubRegister(c)
    \/ \E c \in Conns : SendAck(c)
    \/ \E c \in Conns, type \in CommandTypes : ReadMessage(c, type)
    \/ \E c \in Conns, type \in CommandTypes \ {"other"} : ReadUndecodable(c, type)
    \/ \E c \in Conns : WriteMessage(c, TRUE)
    \/ HubEvent
    \/ HubCommand
    \/ EngineStart
    \/ EngineInitial

\* Commands that can lead to the end of a session.
LifeCommands == {"startDebug", "continue", "exit"}

\* The life of a session: attached connections, commands and the engine.
HubNext ==
    \/ \E c \in Conns, sessionProvided \in Bools : Connect(c, sessionProvided)
    \/ \E c \in Conns : HubRegister(c)
    \/ \E c \in Conns, type \in LifeCommands : ReadMessage(c, type)
    \/ \E c \in Conns : ReadError(c)
    \/ \E c \in Conns : HubUnregister(c)
    \/ TimePassesUnattended
    \/ HubTick
    \/ HubEvent
    \/ HubCommand
    \/ HubEndSession
    \/ EngineStart
    \/ EngineInitial
    \/ \E outcome \in WaitOutcomes : EngineLoop(outcome)
    \/ EngineTrapped
    \/ ListenerEnd

\* Commands that start a session and resume the target.
StepCommands == {"startDebug", "continue", "stepOver"}

\* The event path: commands that resume the target, the engine's reports,
\* the listener's broadcasts and their delivery to the endpoint that
\* created the session.
EventsNext ==
    \/ \E c \in Conns : Connect(c, FALSE)
    \/ \E c \in Conns : HubRegister(c)
    \/ \E c \in Conns : SendAck(c)
    \/ \E c \in Conns, type \in StepCommands : ReadMessage(c, type)
    \/ \E c \in Conns : WriteMessage(c, TRUE)
    \/ HubEvent
    \/ HubCommand
    \/ HubEndSession
    \/ StartWithDebug
    \/ initialBreakpointHit
    \/ \E outcome \in WaitOutcomes : mainDebugLoop(outcome)
    \/ breakpointHit
    \/ breakpointHitSelect
    \/ ListenerHit
    \/ ListenerInitial
    \/ ListenerEnding
    \/ ListenerBroadcast

(***************************************************************************)
(* The controller library, pkg/client: a Client keeps the state the server *)
(* last announced and a queue of commands its writePump sends.             *)
(***************************************************************************)
ClientSendSize == 2
States == {"ready", "executing", "breakpoint"}
\* Commands sent through SendCommand, and those sent without it.
GuardedCommands == {"continue", "stepOver", "setBreakpoint"}
DirectCommands == {"startDebug", "exit"}
NoClientCall == [method |-> "none", seen |-> "ready", pc |-> "returned", result |-> "none"]

ClientInit ==
    /\ clientState = "ready"
    /\ clientSend = <<>>
    /\ clientDone = FALSE
    /\ clientCall = NoClientCall

\* if currentState != ws.StateBreakpoint { return error }
CommandAllowedAlways(currentState) == TRUE
CommandAllowed(currentState) == currentState = "breakpoint"

\* Client.handleMessage, called by readPump for each message read.
handleMessage(type, newState) ==
    /\ ~clientDone
    /\ clientState' = CASE type = "stateUpdate" -> newState
                         [] type \in {"breakpointHit", "initialBreakpoint"} -> "breakpoint"
                         [] OTHER -> clientState
    /\ UNCHANGED <<clientSend, clientDone, clientCall>>
    /\ UNCHANGED <<goVars, engVars, regVars, hubVars, stopVars>>

\* readPump returns on a read error: close(c.done).
ClientReadError ==
    /\ ~clientDone
    /\ clientDone' = TRUE
    /\ UNCHANGED <<clientState, clientSend, clientCall>>
    /\ UNCHANGED <<goVars, engVars, regVars, hubVars, stopVars>>

\* writePump takes the next message of c.send.
ClientWrite ==
    /\ clientSend # <<>>
    /\ clientSend' = Tail(clientSend)
    /\ UNCHANGED <<clientState, clientDone, clientCall>>
    /\ UNCHANGED <<goVars, engVars, regVars, hubVars, stopVars>>

\* Client.SendCommand up to its select: the state is read once and the
\* call returns an error unless it is breakpoint.
SendCommand(cmdType) ==
    /\ clientCall.pc = "returned"
    /\ clientCall' = IF CommandAllowed(clientState)
                     THEN [method |-> cmdType, seen |-> clientState,
                           pc |-> "select", result |-> "none"]
                     ELSE [method |-> cmdType, seen |-> clientState,
                           pc |-> "returned", result |-> "error"]
    /\ UNCHANGED <<clientState, clientSend, clientDone>>
    /\ UNCHANGED <<goVars, engVars, regVars, hubVars, stopVars>>

\* StartDebug and Stop go to the select without reading the state.
SendDirect(cmdType) ==
    /\ clientCall.pc = "returned"
    /\ clientCall' = [method |-> cmdType, seen |-> clientState,
                      pc |-> "select", result |-> "none"]
    /\ UNCHANGED <<clientState, clientSend, clientDone>>
    /\ UNCHANGED <<goVars, engVars, regVars, hubVars, stopVars>>

\* select { case c.send <- msg: return nil; case <-c.done: return error }
ClientSelect ==
    /\ clientCall.pc = "select"
    /\ \/ /\ ~ChanFull(clientSend, ClientSendSize)
          /\ clientSend' = ChanSend(clientSend, clientCall.method)
          /\ clientCall' = [clientCall EXCEPT !.pc = "returned", !.result = "sent"]
       \/ /\ clientDone
          /\ clientCall' = [clientCall EXCEPT !.pc = "returned", !.result = "closed"]
          /\ UNCHANGED clientSend
    /\ UNCHANGED <<clientState, clientDone>>
    /\ UNCHANGED <<goVars, engVars, regVars, hubVars, stopVars>>

\* Messages a server sends.
ClientNext ==
    \/ \E type \in {"sessionStarted", "stateUpdate", "breakpointHit", "initialBreakpoint"},
          newState \in States : handleMessage(type, newState)
    \/ ClientReadError
    \/ ClientWrite
    \/ \E cmdType \in GuardedCommands : SendCommand(cmdType)
    \/ \E cmdType \in DirectCommands : SendDirect(cmdType)
    \/ ClientSelect

(***************************************************************************)
(* Debugger.StartWithDebug(path) from its first statement: the path is     *)
(* validated before the target is created.                                 *)
(***************************************************************************)
\* What validateTargetPath looks at: whether the absolute path is below the
\* working directory, whether Stat succeeds, and the file's mode.
Paths == [inside : Bools, accessible : Bools, regular : Bools, executable : Bools]

\* validateTargetPath(path) returns no error.
validateTargetPath(path) ==
    /\ path.inside
    /\ path.accessible
    /\ path.regular
    /\ path.executable

\* The path fails validation: panic(err), in the goroutine that handleCommand
\* started with go h.debugger.StartWithDebug.
StartRejected(path) ==
    /\ ~crashed
    /\ dbg = "starting"
    /\ ~validateTargetPath(path)
    /\ Panic
    /\ UNCHANGED <<stopVars, goVars, cliVars, engVars, regVars, loopVars, connVars, dbgVars, evtVars>>

\* The path passes: the target is created and its first stop reported.
StartValidated(path) ==
    /\ validateTargetPath(path)
    /\ StartWithDebug

\* A session whose controller sends startDebug with any path.
StartNext ==
    \/ \E c \in Conns : Connect(c, FALSE)
    \/ \E c \in Conns : HubRegister(c)
    \/ \E c \in Conns : SendAck(c)
    \/ \E c \in Conns : ReadMessage(c, "startDebug")
    \/ \E c \in Conns : ReadError(c)
    \/ \E c \in Conns : HubUnregister(c)
    \/ \E c \in Conns : WriteMessage(c, TRUE)
    \/ HubCommand
    \/ HubEvent
    \/ \E path \in Paths : StartRejected(path)
    \/ \E path \in Paths : StartValidated(path)
    \/ ListenerInitial
    \/ ListenerBroadcast

(***************************************************************************)
(* Debugger.StopDebug as a method any goroutine may call, at any time and  *)
(* any number of times.                                                    *)
(***************************************************************************)
MaxStops == 3

StopInit ==
    /\ stopCalls = 0
    /\ detaches = 0
    /\ endSignals = 0

\* d.DebugInfo.Target.PID > 0: set when the target is launched, never reset.
PIDSet == target # "none"

\* sys.PtraceDetach succeeds on a tracee that is stopped; on a process that
\* is running, already detached or gone it returns an error.
DetachSucceeds == target = "stopped"

StopDebug ==
    /\ ~crashed
    /\ stopCalls < MaxStops
    /\ stopCalls' = stopCalls + 1
    /\ detaches' = IF PIDSet THEN detaches + 1 ELSE detaches
    /\ IF PIDSet /\ ~DetachSucceeds
       THEN /\ crashed' = TRUE
            /\ UNCHANGED <<target, EndDebugSession, endSignals>>
       ELSE /\ target' = IF PIDSet THEN "detached" ELSE target
            /\ EndDebugSession' = SignalEnd(EndDebugSession)
            /\ endSignals' = IF ChanFull(EndDebugSession, debuggerChanSize)
                              THEN endSignals ELSE endSignals + 1
            /\ UNCHANGED crashed
    /\ UNCHANGED <<listener, dbg, DebugCommand>>
    /\ UNCHANGED <<nRead, nStarts, nEvents, pushed, written, engineLog,
                   slowFound, shutdownCalls>>
    /\ UNCHANGED <<evtVars, goVars, cliVars, engVars, regVars, loopVars, connVars>>

\* A debugger of a session, its target launched by startDebug, and the
\* calls of StopDebug; Hub.Run takes the end signal.
StopNext ==
    \/ \E c \in Conns : Connect(c, FALSE)
    \/ \E c \in Conns : HubRegister(c)
    \/ \E c \in Conns : SendAck(c)
    \/ \E c \in Conns : ReadMessage(c, "startDebug")
    \/ HubCommand
    \/ HubEndSession
    \/ EngineStart
    \/ StopDebug

(***************************************************************************)
(* Successive startDebug commands.  handleCommand runs                     *)
(* "go h.debugger.StartWithDebug(path)" for each of them, on the one       *)
(* Debugger of the hub: the goroutines share d.DebugInfo, d.DebugCommand   *)
(* and d.EndDebugSession, and each locks its own OS thread.                *)
(***************************************************************************)
MaxStarts == 2
Engines == 1 .. MaxStarts

GoInit ==
    /\ engineAt = [g \in Engines |-> "none"]
    /\ DebugInfo = 0
    /\ ptraceOps = {}

\* A ptrace-class call (set options, wait, peek, poke, registers, step,
\* continue, detach): the goroutine that makes it and the target whose
\* pid it passes.  Target g is the process launched by goroutine g.
PtraceOp(g, t) == [by |-> g, on |-> t]

\* The kernel serves a ptrace request only on the thread that attached:
\* from any other thread it fails with ESRCH.
PtraceSucceeds(g, t) == g = t

\* What Wait4(-PGID, WNOHANG) reports in mainDebugLoop: nothing changed
\* (wpid = 0), an error, the exit of the primary thread, the exit of
\* another thread, a SIGTRAP stop, a clone event or another stop.
WaitResults == {"none", "error", "exited", "threadExited", "trap", "clone"}

\* case CmdStartDebug of handleCommand and StartWithDebug up to the call of
\* initialBreakpointHit: the target is launched, its options are set,
\* d.DebugInfo is overwritten and the initial stop is waited for.
StartWithDebugBy(g) ==
    /\ ~crashed
    /\ engineAt[g] = "none"
    /\ \A k \in Engines : k < g => engineAt[k] # "none"
    /\ engineAt' = [engineAt EXCEPT ![g] = "initial"]
    /\ DebugInfo' = g
    /\ ptraceOps' = ptraceOps \cup {PtraceOp(g, g)}
    /\ UNCHANGED <<dbgVars, histVars>>
    /\ UNCHANGED <<engVars, regVars, loopVars, connVars, evtVars, cliVars, stopVars>>

\* handleCommand of continue, stepOver, setBreakpoint and exit, seen from
\* the engine: sendCommandToDebugger on the DebugCommand channel.
CommandForwarded(type) ==
    /\ ~crashed
    /\ DebugInfo # 0
    /\ ~ChanFull(DebugCommand, debuggerChanSize)
    /\ DebugCommand' = sendCommandToDebugger(DebugCommand,
                          [conn |-> 1, n |-> 0, type |-> DebugCommandType(type)])
    /\ UNCHANGED <<listener, dbg, target, EndDebugSession, histVars, goVars>>
    /\ UNCHANGED <<engVars, regVars, loopVars, connVars, evtVars, cliVars, stopVars>>

\* The loop of initialBreakpointHit in goroutine g, one command: every
\* ptrace call passes d.DebugInfo.Target.PID.  A failed SetBreakpoint or
\* PtraceCont panics; quit is StopDebug.
initialBreakpointHitBy(g) ==
    /\ ~crashed
    /\ engineAt[g] = "initial"
    /\ \/ /\ DebugCommand # <<>>
          /\ DebugCommand' = Tail(DebugCommand)
          /\ LET cmd == ChanHead(DebugCommand)
                 ok == PtraceSucceeds(g, DebugInfo)
             IN  CASE cmd.type = "step" ->
                        UNCHANGED <<engineAt, ptraceOps, EndDebugSession, histVars>>
                   [] cmd.type = "setBreakpoint" ->
                        /\ ptraceOps' = ptraceOps \cup {PtraceOp(g, DebugInfo)}
                        /\ IF ok THEN UNCHANGED histVars ELSE Panic
                        /\ UNCHANGED <<engineAt, EndDebugSession>>
                   [] cmd.type = "continue" ->
                        /\ ptraceOps' = ptraceOps \cup {PtraceOp(g, DebugInfo)}
                        /\ IF ok THEN UNCHANGED histVars ELSE Panic
                        /\ engineAt' = [engineAt EXCEPT ![g] = IF ok THEN "loop" ELSE @]
                        /\ UNCHANGED EndDebugSession
                   [] OTHER ->
                        /\ ptraceOps' = ptraceOps \cup {PtraceOp(g, DebugInfo)}
                        /\ IF ok THEN UNCHANGED histVars ELSE Panic
                        /\ engineAt' = [engineAt EXCEPT ![g] = IF ok THEN "loop" ELSE @]
                        /\ EndDebugSession' = IF ok THEN SignalEnd(EndDebugSession)
                                              ELSE EndDebugSession
       \/ /\ EndDebugSession # <<>>
          /\ EndDebugSession' = Tail(EndDebugSession)
          /\ engineAt' = [engineAt EXCEPT ![g] = "done"]
          /\ UNCHANGED <<DebugCommand, ptraceOps, histVars>>
    /\ UNCHANGED <<listener, dbg, target, DebugInfo>>
    /\ UNCHANGED <<engVars, regVars, loopVars, connVars, evtVars, cliVars, stopVars>>

\* Mutant of PrimaryExited: wpid is not compared with the target's pid.
PrimaryExitedAlways(res) == TRUE

\* waitStatus.Exited() with wpid == d.DebugInfo.Target.PID: the thread whose
\* exit was reported is the primary thread of the target.
PrimaryExited(res) == res = "exited"

\* One round of mainDebugLoop in goroutine g: the end-of-session check,
\* then Wait4 on the group d.DebugInfo names.  The exit of the primary
\* thread signals the end of the session and returns, the exit of another
\* thread is logged, a SIGTRAP stop that is no clone event enters
\* breakpointHit (PtraceGetRegs, a panic when it fails), any other stop is
\* continued (a return when that fails).
mainDebugLoopBy(g, res) ==
    /\ ~crashed
    /\ engineAt[g] = "loop"
    /\ IF EndDebugSession # <<>>
       THEN /\ res = "none"
            /\ EndDebugSession' = Tail(EndDebugSession)
            /\ engineAt' = [engineAt EXCEPT ![g] = "done"]
            /\ UNCHANGED <<ptraceOps, histVars>>
       ELSE /\ ptraceOps' = ptraceOps \cup {PtraceOp(g, DebugInfo)}
            /\ CASE res = "none" ->
                      UNCHANGED <<engineAt, EndDebugSession, histVars>>
                 [] res = "error" ->
                      /\ engineAt' = [engineAt EXCEPT ![g] = "done"]
                      /\ UNCHANGED <<EndDebugSession, histVars>>
                 [] res \in {"exited", "threadExited"} ->
                      IF PrimaryExited(res)
                      THEN /\ EndDebugSession' = SignalEnd(EndDebugSession)
                           /\ engineAt' = [engineAt EXCEPT ![g] = "done"]
                           /\ UNCHANGED histVars
                      ELSE UNCHANGED <<engineAt, EndDebugSession, histVars>>
                 [] res = "trap" ->
                      /\ IF PtraceSucceeds(g, DebugInfo)
                         THEN /\ engineAt' = [engineAt EXCEPT ![g] = "trapped"]
                              /\ UNCHANGED histVars
                         ELSE /\ Panic
                              /\ UNCHANGED engineAt
                      /\ UNCHANGED EndDebugSession
                 [] OTHER ->
                      /\ engineAt' = [engineAt EXCEPT ![g] =
                                         IF PtraceSucceeds(g, DebugInfo) THEN @ ELSE "done"]
                      /\ UNCHANGED <<EndDebugSession, histVars>>
    /\ UNCHANGED <<listener, dbg, target, DebugCommand, DebugInfo>>
    /\ UNCHANGED <<engVars, regVars, loopVars, connVars, evtVars, cliVars, stopVars>>

\* The select of breakpointHit(wpid) in goroutine g: continue, step and
\* setBreakpoint pass the pid the wait reported, quit is StopDebug, which
\* detaches d.DebugInfo.Target.PID; then control is back in mainDebugLoop.
breakpointHitBy(g) ==
    /\ ~crashed
    /\ engineAt[g] = "trapped"
    /\ \/ /\ DebugCommand # <<>>
          /\ DebugCommand' = Tail(DebugCommand)
          /\ LET cmd == ChanHead(DebugCommand)
                 on == IF cmd.type = "quit" THEN DebugInfo ELSE g
             IN  /\ ptraceOps' = ptraceOps \cup {PtraceOp(g, on)}
                 /\ IF PtraceSucceeds(g, on) THEN UNCHANGED histVars ELSE Panic
                 /\ EndDebugSession' = IF cmd.type = "quit" /\ PtraceSucceeds(g, on)
                                       THEN SignalEnd(EndDebugSession)
                                       ELSE EndDebugSession
       \/ /\ EndDebugSession # <<>>
          /\ EndDebugSession' = Tail(EndDebugSession)
          /\ UNCHANGED <<DebugCommand, ptraceOps, histVars>>
    /\ engineAt' = [engineAt EXCEPT ![g] = "loop"]
    /\ UNCHANGED <<listener, dbg, target, DebugInfo>>
    /\ UNCHANGED <<engVars, regVars, loopVars, connVars, evtVars, cliVars, stopVars>>

TargetsNext ==
    \/ \E g \in Engines : StartWithDebugBy(g)
    \/ \E type \in {"continue", "stepOver", "setBreakpoint", "exit"} : CommandForwarded(type)
    \/ \E g \in Engines : initialBreakpointHitBy(g)
    \/ \E g \in Engines, res \in WaitResults : mainDebugLoopBy(g, res)
    \/ \E g \in Engines : breakpointHitBy(g)

Init == EngInit /\ RegInit /\ HubInit /\ ClientInit /\ StopInit /\ GoInit

\* The engine alone: the registry stays as configured by default.
InitEngine == Init /\ maxSessions = MaxSessions
SpecEngine == InitEngine /\ [][EngNext]_vars

\* The Debugger driven by its stop handlers.
SpecHandlers == InitEngine /\ [][HandlersNext]_vars

\* The goroutines of successive startDebug commands on one Debugger.
SpecTargets == InitEngine /\ [][TargetsNext]_vars

(***************************************************************************)
(* initialBreakpointHit on its own, driven through the Debugger's          *)
(* channels as a caller of the package can drive it: DebugCommand values   *)
(* of any type and with any Data, and the end-of-session signal.           *)
(***************************************************************************)
\* DebugCommand.Type values a caller may send.
EngineCommandTypes == {"setBreakpoint", "continue", "step", "quit", "unknown"}

\* DebugCommand.Data: a map[string]any whose "line" is an int, or anything
\* else (a string, a map without an int "line").
Payloads ==
    {[wellFormed |-> TRUE, line |-> l] : l \in Lines}
        \cup {[wellFormed |-> FALSE, line |-> 0]}

\* Mutant of PayloadHasLine: the type assertions are not checked and the
\* zero value of the failed assertion is used as the line.
PayloadHasLineUnchecked(data) == TRUE

\* data, ok := cmd.Data.(map[string]any) and line, ok := data["line"].(int)
\* both succeed.
PayloadHasLine(data) == data.wellFormed

\* The target is launched and stopped at its first instruction, and
\* d.DebugInfo names it; StartWithDebug is about to call
\* initialBreakpointHit.
InitialLaunch(pid) ==
    /\ ~crashed
    /\ dbg = "off"
    /\ dbg' = "starting"
    /\ target' = "stopped"
    /\ DebugInfo' = pid
    /\ UNCHANGED <<listener, DebugCommand, EndDebugSession, engineAt, ptraceOps>>
    /\ UNCHANGED <<histVars, evtVars, stopVars, cliVars, engVars, regVars, loopVars, connVars>>

\* The head of initialBreakpointHit: the event with d.DebugInfo.Target.PID
\* is sent on InitialBreakpointHit, then the select loop is entered.
InitialReport ==
    /\ ~crashed
    /\ dbg = "starting"
    /\ ~ChanFull(InitialBreakpointHit, debuggerChanSize)
    /\ InitialBreakpointHit' = ChanSend(InitialBreakpointHit, [cmd |-> 0, pid |-> DebugInfo])
    /\ nEvents' = nEvents + 1
    /\ dbg' = "initial"
    /\ UNCHANGED <<crashed, nRead, nStarts, pushed, written, engineLog,
                   slowFound, shutdownCalls>>
    /\ UNCHANGED <<listener, target, DebugCommand, EndDebugSession>>
    /\ UNCHANGED <<BreakpointHit, relay, resumedBy>>
    /\ UNCHANGED <<stopVars, goVars, cliVars, engVars, regVars, loopVars, connVars>>

\* The receiver of InitialBreakpointHit takes the event.
InitialReceive ==
    /\ InitialBreakpointHit # <<>>
    /\ InitialBreakpointHit' = Tail(InitialBreakpointHit)
    /\ UNCHANGED <<BreakpointHit, relay, resumedBy>>
    /\ UNCHANGED <<dbgVars, histVars, stopVars, goVars, cliVars, engVars, regVars,
                   loopVars, connVars>>

\* A caller sends a command on DebugCommand (a blocking send).  Only
\* setBreakpoint is sent with a payload worth looking at; the Data of the
\* other types is never read.
InitialDrive(type, data) ==
    /\ ~crashed
    /\ type = "setBreakpoint" \/ ~data.wellFormed
    /\ nRead < MaxCmds
    /\ ~ChanFull(DebugCommand, debuggerChanSize)
    /\ DebugCommand' = ChanSend(DebugCommand,
                          [conn |-> 0, n |-> nRead + 1, type |-> type, data |-> data])
    /\ nRead' = nRead + 1
    /\ UNCHANGED <<crashed, nStarts, nEvents, pushed, written, engineLog,
                   slowFound, shutdownCalls>>
    /\ UNCHANGED <<listener, dbg, target, EndDebugSession>>
    /\ UNCHANGED <<evtVars, stopVars, goVars, cliVars, engVars, regVars, loopVars, connVars>>

\* A caller sends on EndDebugSession while the handler is in progress.
InitialSignal ==
    /\ ~crashed
    /\ dbg \in {"starting", "initial"}
    /\ ~ChanFull(EndDebugSession, debuggerChanSize)
    /\ EndDebugSession' = ChanSend(EndDebugSession, TRUE)
    /\ UNCHANGED <<listener, dbg, target, DebugCommand>>
    /\ UNCHANGED <<histVars, evtVars, stopVars, goVars, cliVars, engVars, regVars,
                   loopVars, connVars>>

\* One round of the select loop of initialBreakpointHit on the traced
\* target.  peekOk and pokeOk are the outcomes of SetBreakpoint's ptrace
\* calls, callOk that of PtraceCont or of StopDebug's PtraceDetach.
InitialSelect(peekOk, pokeOk, callOk) ==
    /\ ~crashed
    /\ dbg = "initial"
    /\ \/ /\ DebugCommand # <<>>
          /\ DebugCommand' = Tail(DebugCommand)
          /\ engineLog' = Append(engineLog, ChanHead(DebugCommand))
          /\ UNCHANGED <<nRead, nStarts, nEvents, pushed, written, slowFound, shutdownCalls>>
          /\ LET cmd == ChanHead(DebugCommand)
             IN  CASE cmd.type = "setBreakpoint" /\ PayloadHasLine(cmd.data) ->
                        LET r == SetBreakpoint(mem, Breakpoints, cmd.data.line, peekOk, pokeOk)
                        IN  /\ mem' = r.mem
                            /\ Breakpoints' = r.bp
                            /\ armedOrig' = NoteArmed(cmd.data.line, ~r.err)
                            /\ crashed' = r.err
                            /\ UNCHANGED <<dbg, target, EndDebugSession>>
                   [] cmd.type = "continue" ->
                        /\ crashed' = ~callOk
                        /\ dbg' = IF callOk THEN "loop" ELSE dbg
                        /\ target' = IF callOk THEN "running" ELSE target
                        /\ UNCHANGED <<mem, Breakpoints, armedOrig, EndDebugSession>>
                   [] cmd.type = "quit" ->
                        /\ crashed' = ~callOk
                        /\ dbg' = IF callOk THEN "loop" ELSE dbg
                        /\ target' = IF callOk THEN "detached" ELSE target
                        /\ EndDebugSession' = IF callOk THEN SignalEnd(EndDebugSession)
                                              ELSE EndDebugSession
                        /\ UNCHANGED <<mem, Breakpoints, armedOrig>>
                   [] OTHER ->
                        UNCHANGED <<mem, Breakpoints, armedOrig, crashed, dbg, target,
                                    EndDebugSession>>
       \/ /\ EndDebugSession # <<>>
          /\ EndDebugSession' = Tail(EndDebugSession)
          /\ dbg' = "loop"
          /\ UNCHANGED <<DebugCommand, target, mem, Breakpoints, armedOrig, histVars>>
    /\ UNCHANGED <<rip, engine, cause, frame, last, prev>>
    /\ UNCHANGED listener
    /\ UNCHANGED <<evtVars, stopVars, goVars, cliVars, regVars, loopVars, connVars>>

InitialNext ==
    \/ \E pid \in Engines : InitialLaunch(pid)
    \/ InitialReport
    \/ InitialReceive
    \/ \E type \in EngineCommandTypes, data \in Payloads : InitialDrive(type, data)
    \/ InitialSignal
    \/ \E peekOk \in Bools, pokeOk \in Bools, callOk \in Bools :
           InitialSelect(peekOk, pokeOk, callOk)

\* initialBreakpointHit driven through the Debugger's channels.
SpecInitial == InitEngine /\ [][InitialNext]_vars

(***************************************************************************)
(* Claims about the breakpoint table (SpecEngine).                         *)
(***************************************************************************)
OutsideStepOver == engine \in {"stopped", "running"}

\* C1: outside the step-over sequence, every key of the breakpoint table
\* has the trap byte in target memory, and every address that was armed and
\* is no longer a key holds the byte read when it was armed.
C1_TableMatchesMemory ==
    OutsideStepOver =>
        /\ \A pc \in DOMAIN Breakpoints : mem[pc] = TrapByte
        /\ \A pc \in (DOMAIN armedOrig) \ (DOMAIN Breakpoints) : mem[pc] = armedOrig[pc]

SetThenSet ==
    /\ prev.op = "set" /\ prev.ok
    /\ last.op = "set" /\ last.ok
    /\ prev.line = last.line

\* C2: SetBreakpoint twice for the same line, with no ClearBreakpoint in
\* between, leaves Breakpoints[pc] equal to the byte the first call captured.
C2_SecondSetKeepsSaved ==
    SetThenSet => Breakpoints[last.pc] = <<prev.before>>

SetThenClear ==
    /\ prev.op = "set" /\ prev.ok
    /\ last.op = "clear" /\ last.ok
    /\ prev.line = last.line

\* C3: SetBreakpoint(l) followed by ClearBreakpoint(l) leaves the byte at
\* line_to_pc(l) equal to the value it had before the SetBreakpoint.
C3_SetThenClearRestores ==
    SetThenClear => mem[last.pc] = prev.before

\* C3 witness: a line armed for the first time and then cleared.
C3_Witness ==
    /\ SetThenClear
    /\ prev.entry = <<>>
    /\ prev.before = TargetCode(last.pc)

\* C4: Continue from a stop at a breakpoint the engine planted at pc ends
\* with the table entry for pc identical to the entry before the step and
\* with the trap byte in memory at pc.
C4_StepOverKeepsEntry ==
    (last.op = "continue" /\ last.planted) =>
        /\ last.pc \in DOMAIN Breakpoints
        /\ Breakpoints[last.pc] = last.entry
        /\ mem[last.pc] = TrapByte

\* C4 witness: a completed Continue over a planted breakpoint that saved the
\* original byte, the target running again.
C4_Witness ==
    /\ last.op = "continue" /\ last.planted /\ last.ok
    /\ engine = "running"
    /\ last.entry = <<TargetCode(last.pc)>>

SpecRegistry == Init /\ [][RegNext]_vars

\* One session of a server with a positive session limit.
InitHub == Init /\ maxSessions = MaxSessions
SpecHub == InitHub /\ [][HubNext]_vars

InitSend == Init /\ maxSessions = MaxSessions
SpecSend == InitSend /\ [][SendNext]_vars

InitCommands == Init /\ maxSessions = MaxSessions
SpecCommands == InitCommands /\ [][CommandNext]_vars

InitDecode == Init /\ maxSessions = MaxSessions
SpecDecode == InitDecode /\ [][DecodeNext]_vars

InitEvents == Init /\ maxSessions = MaxSessions
SpecEvents == InitEvents /\ [][EventsNext]_vars

\* A controller alone.
InitClient == Init /\ maxSessions = MaxSessions
SpecClient == InitClient /\ [][ClientNext]_vars

InitStart == Init /\ maxSessions = MaxSessions
SpecStart == InitStart /\ [][StartNext]_vars

InitStop == Init /\ maxSessions = MaxSessions
SpecStop == InitStop /\ [][StopNext]_vars

(***************************************************************************)
(* Claims about the hub.                                                   *)
(***************************************************************************)
\* C5: under any interleaving of idle ticks, unregister requests, engine
\* end-of-session signals, commands and events, the session's onShutdown
\* callback is invoked at most once in the hub's lifetime (SpecHub).
C5_ShutdownAtMostOnce == shutdownCalls <= 1

\* A broadcast found an endpoint with a full queue while another endpoint,
\* whose queue had room, was attached.
SlowAmongOthers ==
    /\ slowFound # {}
    /\ \E d \in connections : d \notin slowFound

\* C6: with two or more endpoints attached, once a broadcast finds an
\* endpoint's queue at capacity, that endpoint is removed from the hub and
\* its queue is closed, and the hub's loop is not stopped by it: it keeps
\* serving the other endpoints (SpecSend).
C6_SlowEndpointEvicted ==
    SlowAmongOthers =>
        /\ \A c \in slowFound : c \notin connections /\ sendClosed[c]
        /\ hubLoop # "unregisterBlocked"

IsPrefix(s, t) ==
    /\ Len(s) <= Len(t)
    /\ \A i \in 1 .. Len(s) : s[i] = t[i]

\* C7: for every endpoint, what its WritePump has written is a prefix of
\* what was pushed onto its send queue (same order, nothing lost, doubled
\* or reordered), and it is all of it once the pump has ended on the close
\* of the queue without a write error (SpecSend).
C7_WrittenIsPrefixOfPushed ==
    \A c \in Conns :
        /\ IsPrefix(written[c], pushed[c])
        /\ writePump[c] = "closed" => written[c] = pushed[c]

\* C7 witness: a pump that ended on the close of its queue after writing
\* the acknowledgement and a broadcast event.
C7_Witness ==
    \E c \in Conns :
        /\ writePump[c] = "closed"
        /\ Len(written[c]) >= 2
        /\ written[c] = pushed[c]

\* C8: the commands the engine receives on DebugCommand from one endpoint
\* appear in the order in which that endpoint's ReadPump put them on the
\* hub's commands channel (SpecCommands).
C8_EngineSeesCommandsInOrder ==
    \A i \in 1 .. Len(engineLog), j \in 1 .. Len(engineLog) :
        (i < j /\ engineLog[i].conn = engineLog[j].conn)
            => engineLog[i].n < engineLog[j].n

\* C8 witness: the engine has received two commands of one endpoint.
C8_Witness ==
    \E i \in 1 .. Len(engineLog), j \in 1 .. Len(engineLog) :
        /\ i < j
        /\ engineLog[i].conn = engineLog[j].conn
        /\ engineLog[i].n < engineLog[j].n

(***************************************************************************)
(* Claims about the registry (SpecRegistry).                               *)
(***************************************************************************)
\* C9: the registry holds at most one live hub per session identifier and,
\* when MaxSessions > 0, at most MaxSessions entries.
C9_RegistryBounded ==
    /\ \A e1 \in liveHubs, e2 \in liveHubs : e1[1] = e2[1] => e1 = e2
    /\ \A e \in liveHubs : e[1] \in DOMAIN hubs /\ hubs[e[1]] = e[2]
    /\ maxSessions > 0 => Cardinality(DOMAIN hubs) <= maxSessions

\* C9 witness: the registry is full, and a CreateHub was just refused.
C9_Witness ==
    /\ maxSessions > 0
    /\ Cardinality(DOMAIN hubs) = maxSessions
    /\ lastCall.op = "create" /\ lastCall.err

AtCapacity ==
    /\ lastCall.op = "create"
    /\ Cardinality(DOMAIN lastCall.hubsBefore) = maxSessions

CreateRefused ==
    /\ lastCall.err
    /\ lastCall.hub = NoHub
    /\ hubs = lastCall.hubsBefore
    /\ hubLoops = lastCall.loopsBefore

\* C10 as stated: CreateHub called when the number of live sessions equals
\* MaxSessions returns an error and no hub, leaves the map unchanged and
\* starts no hub loop.
C10_CreateAtCapacityRefused == AtCapacity => CreateRefused

\* C10 amended: the same, when MaxSessions > 0 (0 means no limit).
C10_CreateAtPositiveCapacityRefused ==
    (AtCapacity /\ maxSessions > 0) => CreateRefused

\* C10 witness: a CreateHub of a new identifier refused at capacity.
C10_Witness ==
    /\ AtCapacity /\ maxSessions > 0
    /\ lastCall.id \notin DOMAIN lastCall.hubsBefore
    /\ lastCall.err

\* Idleness: registrations, events and the clock against the ticker.
IdleNext ==
    \/ \E c \in Conns, sessionProvided \in Bools : Connect(c, sessionProvided)
    \/ \E c \in Conns : HubRegister(c)
    \/ \E c \in Conns : SendAck(c)
    \/ \E c \in Conns : ReadError(c)
    \/ \E c \in Conns : HubUnregister(c)
    \/ TimePasses
    \/ HubTick
    \/ HubEvent
    \/ Broadcast

InitIdle == Init /\ maxSessions = MaxSessions
SpecIdle == InitIdle /\ [][IdleNext]_vars

(***************************************************************************)
(* The session under the scheduling the Go runtime gives: a select case    *)
(* that stays ready is eventually taken, a goroutine that can receive from *)
(* a channel eventually does.  What the peers, the clock and the target do *)
(* (reads, read errors, the idle timeout, Wait4 outcomes) is not forced.    *)
(***************************************************************************)
HubFairness ==
    /\ WF_vars(HubEvent)
    /\ WF_vars(HubCommand)
    /\ WF_vars(HubEndSession)
    /\ WF_vars(HubTick)
    /\ \A c \in Conns : WF_vars(HubRegister(c))
    /\ \A c \in Conns : WF_vars(HubUnregister(c))
    /\ WF_vars(EngineStart)
    /\ WF_vars(EngineInitial)
    /\ WF_vars(EngineTrapped)
    /\ WF_vars(EndDebugSession # <<>> /\ EngineLoop("error"))
    /\ WF_vars(ListenerEnd)

SpecHubFair == InitHub /\ [][HubNext]_vars /\ HubFairness

\* The same scheduling for the connections of SpecIdle: a ready case of
\* Hub.Run's select and a ready send of the handler are eventually taken.
IdleFairness ==
    /\ WF_vars(HubEvent)
    /\ WF_vars(HubTick)
    /\ \A c \in Conns : WF_vars(HubRegister(c))
    /\ \A c \in Conns : WF_vars(HubUnregister(c))
    /\ \A c \in Conns : WF_vars(SendAck(c))

SpecIdleFair == InitIdle /\ [][IdleNext]_vars /\ IdleFairness

(***************************************************************************)
(* Claims about the end of a session (SpecHub, SpecHubFair).               *)
(***************************************************************************)
\* The hub has handled an exit command while the engine waits in
\* breakpointHit: quit is the next request the engine takes.
ExitAtBreakpoint ==
    /\ hubLoop = "run"
    /\ dbg = "trapped"
    /\ DebugCommand # <<>>
    /\ ChanHead(DebugCommand).type = "quit"
    /\ EndDebugSession = <<>>

\* The engine has detached (the target may later exit on its own), shutdown
\* has run and Server.GetHub finds no session.
SessionEnded ==
    /\ target \in {"detached", "exited"}
    /\ shutdownCalls >= 1
    /\ HubSession \notin DOMAIN hubs

\* C11: an exit command issued while the engine is stopped at a breakpoint
\* leads to the engine detached from the target, the session's shutdown
\* callback run and the session absent from the registry.
C11_ExitAtBreakpointEndsSession == ExitAtBreakpoint ~> SessionEnded

EngineActive == dbg \in {"initial", "trapped", "loop"}

\* The engine goroutine has returned and no longer traces the target.
EngineReleased == dbg = "done" /\ target \in {"detached", "exited"}

\* C13: once the hub's shutdown has run, an engine that is waiting in the
\* initial-stop handler, in the breakpoint handler or polling in the main
\* loop eventually returns, detached from the target.
C13_ShutdownReleasesEngine ==
    (shutdownCalls >= 1 /\ EngineActive) ~> EngineReleased

\* C14: once the hub's shutdown has run, the hub pushes no event onto the
\* send queue of any connection.
C14_NoPushAfterShutdown ==
    [][(shutdownCalls >= 1 /\ HubEvent) => pushed' = pushed]_vars

Rank(m) ==
    CASE m.type = "stateUpdate" /\ m.state = "executing" -> 1
      [] m.type = "breakpointHit" -> 2
      [] m.type = "stateUpdate" /\ m.state = "breakpoint" -> 3
      [] OTHER -> 0

\* A continue or step request enters DebugCommand only in a step that
\* also puts the stateUpdate(executing) of that command on h.events.
ExecutingEnqueuedAtHandOff ==
    \A i \in DOMAIN DebugCommand' :
        ( /\ DebugCommand'[i].type \in {"continue", "step"}
          /\ \A j \in DOMAIN DebugCommand : DebugCommand[j] # DebugCommand'[i] )
        => \E j \in DOMAIN events' :
              /\ Rank(events'[j]) = 1
              /\ events'[j].cmd = DebugCommand'[i].n
              /\ \A l \in DOMAIN events : events[l] # events'[j]

\* In what an endpoint was sent, the messages of one command come in the
\* order executing, breakpointHit, breakpoint, and an endpoint that got the
\* first and the last also got the one in between.
ReceivedInOrder(s) ==
    /\ \A i, j \in DOMAIN s :
          ( /\ s[i].cmd > 0 /\ s[i].cmd = s[j].cmd
            /\ Rank(s[i]) > 0 /\ Rank(s[i]) < Rank(s[j]) ) => i < j
    /\ \A i, j \in DOMAIN s :
          ( /\ s[i].cmd > 0 /\ s[i].cmd = s[j].cmd
            /\ Rank(s[i]) = 1 /\ Rank(s[j]) = 3 )
          => \E l \in DOMAIN s : i < l /\ l < j /\ s[l].cmd = s[i].cmd /\ Rank(s[l]) = 2

C18_SessionStartedFirst ==
    \A c \in Conns : written[c] # <<>> => written[c][1].type = "sessionStarted"

(***************************************************************************)
(* Claims about the controller library (SpecClient).                       *)
(***************************************************************************)
\* C19: a SendCommand call (Continue, StepOver, SetBreakpoint) made while
\* the client's state is not breakpoint returns an error and leaves the
\* client's send queue as it was; a call that ended with the error never
\* reaches the select that enqueues.
C19_SendCommandRejectedOutsideBreakpoint ==
    /\ [][\A cmdType \in GuardedCommands :
            (SendCommand(cmdType) /\ clientState # "breakpoint") =>
                /\ clientCall'.result = "error"
                /\ clientCall'.pc = "returned"
                /\ clientSend' = clientSend]_vars
    /\ []((clientCall.method \in GuardedCommands /\ clientCall.seen # "breakpoint")
            => clientCall.result = "error")

\* C19 witness: Continue was called in state executing with room in the
\* queue, and returned the error.
C19_Witness ==
    /\ clientCall.method = "continue"
    /\ clientCall.seen = "executing"
    /\ clientCall.result = "error"
    /\ clientState = "executing"
    /\ ~clientDone
    /\ clientSend = <<>>

(***************************************************************************)
(* Claims about StopDebug (SpecStop).                                      *)
(***************************************************************************)
\* C20: a call of StopDebug that is not the first is a no-op: it makes no
\* detach attempt, does not fail and queues no signal.
C20_LaterStopDebugIsNoOp ==
    [][(StopDebug /\ stopCalls >= 1) =>
          /\ detaches' = detaches
          /\ ~crashed'
          /\ EndDebugSession' = EndDebugSession]_vars

(***************************************************************************)
(* Claims about the start of a debug session (SpecStart).                  *)
(***************************************************************************)
\* C21: StartWithDebug with a path that fails validation launches no
\* target, emits no initial-stop or state event, and the session keeps
\* running.
C21_InvalidPathRejected ==
    [][\A path \in Paths : StartRejected(path) =>
          /\ target' = "none"
          /\ InitialBreakpointHit' = <<>>
          /\ events' = events
          /\ hubLoop' = hubLoop
          /\ ~crashed']_vars

(***************************************************************************)
(* Further claims about the breakpoint table (SpecEngine).                 *)
(***************************************************************************)
\* C22: after a successful ClearBreakpoint(l) the table has no entry for
\* the pc of l, and ClearBreakpoint of a line whose pc is not in the table
\* returns an error.
C22_ClearRemovesEntry ==
    /\ (last.op = "clear" /\ last.ok) => last.pc \notin DOMAIN Breakpoints
    /\ (last.op = "clear" /\ LineMapped(last.line) /\ last.entry = <<>>) => ~last.ok

\* C23: every ptrace-class operation on a target is made by the goroutine
\* that ran StartWithDebug for that target.
C23_PtraceOnOwningThread == \A op \in ptraceOps : op.by = op.on

\* Server.Shutdown reaches "for c := range hub.connections" for the hub of
\* the session: the set is read by the goroutine that called Shutdown.
ShutdownRangesConnections == Shutdown /\ HubSession \in DOMAIN hubs

\* C24: the hub's connections set is accessed only from Hub.Run: no other
\* goroutine, Server.Shutdown included, reads it while the loop is running
\* and may be mutating it.
C24_ConnectionsOnlyInRunLoop ==
    [][ShutdownRangesConnections => hubLoop # "run"]_vars

\* The envelope handleCommand is about to take is one it drops: its type
\* is unknown, or its data does not decode for its type.
DroppedEnvelope ==
    /\ commands # <<>>
    /\ \/ ~ChanHead(commands).decodes
       \/ ChanHead(commands).type \notin
              {"startDebug", "setBreakpoint", "continue", "stepOver", "exit"}

\* C25: a command envelope of unknown type, or whose data fails to decode
\* for its type, is dropped by the hub: nothing is delivered to the engine,
\* no goroutine is started, no event is put on h.events and the
\* connections set is as it was.
C25_BadEnvelopeDropped ==
    [][(HubCommand /\ DroppedEnvelope) =>
          /\ DebugCommand' = DebugCommand
          /\ events' = events
          /\ nEvents' = nEvents
          /\ connections' = connections
          /\ dbg' = dbg
          /\ listener' = listener
          /\ hubLoop' = hubLoop]_vars

\* C25 witness: the hub has taken the one envelope read so far and nothing
\* came of it, with an endpoint attached: no goroutine was started, no
\* event and no engine command was produced.
C25_Witness ==
    /\ nRead = 1
    /\ commands = <<>>
    /\ connections # {}
    /\ dbg = "off"
    /\ listener = "off"
    /\ nEvents = 0
    /\ DebugCommand = <<>>

\* C26: the step-over sequence of Continue (saved byte written back, Rip
\* rewound by one, single-step, re-arm) runs only when the target is
\* stopped at a planted breakpoint, Rip - 1 being a key of the table; and
\* only a set-breakpoint call adds a key to the table.
C26_StepOverOnlyAtPlantedBreakpoint ==
    [][/\ (engine = "stopped" /\ cause # "initial" /\ engine' = "stepping")
              => (rip - 1) \in DOMAIN Breakpoints
       /\ (DOMAIN Breakpoints' # DOMAIN Breakpoints) => last'.op = "set"]_vars

\* C27: when the engine, stopped in breakpointHit, receives a setBreakpoint
\* command, it stays in the handler, waiting on DebugCommand with the
\* target still stopped, so that a later continue or step is received there.
C27_SetBreakpointKeepsHandlerWaiting ==
    [][(/\ EngineTrapped
        /\ DebugCommand # <<>>
        /\ ChanHead(DebugCommand).type = "setBreakpoint"
        /\ engineLog' # engineLog)
          => (dbg' = "trapped" /\ target' = "stopped")]_vars

C29_BreakpointFailureSurvived ==
    [][/\ \A line \in Lines, peekOk \in Bools, pokeOk \in Bools :
            (/\ \/ InitialSetBreakpoint(line, peekOk, pokeOk)
                \/ TrapSetBreakpoint(line, peekOk, pokeOk)
             /\ SetBreakpoint(mem, Breakpoints, line, peekOk, pokeOk).err)
               => (Breakpoints' = Breakpoints /\ engine' # "panicked")
       /\ \A peekOk \in Bools, pokeOk \in Bools, contOk \in Bools :
            (/\ ContinueFinish(TRUE, peekOk, pokeOk, contOk)
             /\ SetBreakpoint(mem, Breakpoints, frame.line, peekOk, pokeOk).err)
               => (Breakpoints' = Breakpoints /\ (contOk => engine' # "panicked"))]_vars

\* C30: in the main loop the reported exit of the primary thread signals
\* the end of the session and ends the loop; the reported exit of another
\* thread signals nothing and the loop goes on.
C30_OnlyPrimaryExitEndsLoop ==
    [][\A g \in Engines :
          /\ mainDebugLoopBy(g, "exited")
                => (engineAt'[g] = "done" /\ EndDebugSession' # <<>>)
          /\ mainDebugLoopBy(g, "threadExited")
                => (engineAt'[g] = "loop" /\ EndDebugSession' = EndDebugSession)]_vars

\* C30 witness: the only goroutine started has left mainDebugLoop with the
\* end-of-session signal it sent still in the channel: no quit was
\* received, the exit of the primary thread was reported.
C30_Witness ==
    /\ engineAt = [g \in Engines |-> IF g = 1 THEN "done" ELSE "none"]
    /\ EndDebugSession # <<>>
    /\ ~crashed

\* C31: when the wait or the continue of mainDebugLoop fails, the loop
\* returns without a panic and the end of the session is signalled on
\* EndDebugSession.
C31_LoopFailureSignalsEnd ==
    [][(EngineLoop("error") /\ EndDebugSession = <<>>)
          => (~crashed' /\ dbg' = "done" /\ EndDebugSession' # <<>>)]_vars

\* The initial-stop handler has returned on a continue: the engine went on
\* into mainDebugLoop.
MainLoopEntered ==
    \E i \in 1 .. Len(engineLog) : engineLog[i].type = "continue"

\* C32: once the end of the session is signalled on EndDebugSession while
\* the engine is in mainDebugLoop, the loop receives the signal and
\* returns, whatever the hub's loop and the listener do.
C32_LoopObservesEndSignal ==
    (dbg = "loop" /\ EndDebugSession # <<>> /\ MainLoopEntered) ~> (dbg = "done")

\* C33: the hub puts stateUpdate(ready) on h.events for an exit command
\* only once the engine has let go of the target; handling the command
\* itself announces nothing while the target is still traced.
C33_ReadyOnlyAfterEndOfSession ==
    [][(/\ HubCommand
        /\ Len(events') > Len(events)
        /\ events'[Len(events')].state = "ready")
          => target \notin {"stopped", "running"}]_vars

\* A command initialBreakpointHit has to ignore: an unknown type, or a
\* setBreakpoint whose payload is no map with an int line.
IgnoredAtInitialStop(cmd) ==
    \/ cmd.type = "unknown"
    \/ cmd.type = "setBreakpoint" /\ ~cmd.data.wellFormed

\* C34: in initial-stop handling one initial-stop event with the target's
\* pid is emitted before any command is consumed; an unknown command or a
\* setBreakpoint with a malformed payload changes nothing (no breakpoint
\* armed, target not resumed, no panic), and the handler is left only on a
\* continue, a quit or the end-of-session signal.
C34_InitialStopIgnoresBadCommands ==
    /\ [](/\ nEvents <= 1
          /\ (dbg \in {"initial", "loop"} \/ engineLog # <<>>) => nEvents = 1
          /\ \A i \in 1 .. Len(InitialBreakpointHit) :
                InitialBreakpointHit[i].pid = DebugInfo /\ DebugInfo # 0)
    /\ [][(dbg = "initial" /\ DebugCommand' # DebugCommand /\ DebugCommand # <<>>
             /\ Len(engineLog') > Len(engineLog))
          => LET cmd == ChanHead(DebugCommand)
             IN  /\ IgnoredAtInitialStop(cmd)
                    => /\ dbg' = "initial"
                       /\ UNCHANGED <<mem, Breakpoints, target, crashed, EndDebugSession>>
                 /\ dbg' # "initial" => cmd.type \in {"continue", "quit"}]_vars
    /\ [][(dbg = "initial" /\ dbg' # "initial" /\ Len(engineLog') = Len(engineLog))
          => (EndDebugSession # <<>> /\ EndDebugSession' = Tail(EndDebugSession))]_vars

\* Both kinds of ignored command were consumed and the handler still waits.
C34_Witness ==
    /\ dbg = "initial"
    /\ ~crashed
    /\ nEvents = 1
    /\ \E i \in 1 .. Len(engineLog) : engineLog[i].type = "unknown"
    /\ \E i \in 1 .. Len(engineLog) :
          engineLog[i].type = "setBreakpoint" /\ ~engineLog[i].data.wellFormed

\* C35: at most one goroutine of the session's Debugger is between the
\* launch of its target and the end of its run: a startDebug received
\* after a target was launched does not launch a second one.
C35_OneEngineRunPerSession ==
    Cardinality({g \in Engines : engineAt[g] \notin {"none", "done"}}) <= 1

\* C36: no send is executed on a connection's send channel after CloseSend
\* has closed it: neither the push of a broadcast in Hub.Run nor the
\* handler's push of sessionStarted.
C36_NoSendOnClosedQueue ==
    [][\A c \in Conns :
          sendClosed[c] => ~((HubEvent /\ c \in connections) \/ SendAck(c))]_vars

\* Client.handleMessage applied to the messages a controller has received,
\* in order, from the state a Client is constructed with.
RECURSIVE StateAfterMessages(_)
StateAfterMessages(msgs) ==
    IF msgs = <<>>
    THEN "ready"
    ELSE LET m == msgs[Len(msgs)]
             before == StateAfterMessages(SubSeq(msgs, 1, Len(msgs) - 1))
         IN  CASE m.type = "stateUpdate" -> m.state
               [] m.type \in {"breakpointHit", "initialBreakpoint"} -> "breakpoint"
               [] OTHER -> before

\* No command, report, broadcast or signal is in flight anywhere.
ChannelsDrained ==
    /\ commands = <<>>
    /\ events = <<>>
    /\ DebugCommand = <<>>
    /\ EndDebugSession = <<>>
    /\ BreakpointHit = <<>>
    /\ InitialBreakpointHit = <<>>
    /\ relay = <<>>
    /\ \A c \in Conns : send[c] = <<>>

\* The engine is blocked in the select of initialBreakpointHit or of
\* breakpointHit.
EngineWaitsAtStop == dbg \in {"initial", "trapped"}

\* C37: with every channel drained, the state of each controller attached
\* since before the target was started is breakpoint exactly when the
\* engine waits for a command at a stop, and executing exactly when the
\* target is running.
C37_ControllerStateMatchesEngine ==
    (ChannelsDrained /\ ~crashed /\ hubLoop = "run")
        => \A c \in connections :
              (handler[c] = "done" /\ pushed[c] = written[c]
                 /\ \E i \in 1 .. Len(written[c]) : written[c][i].type = "initialBreakpoint")
                => /\ StateAfterMessages(written[c]) = "breakpoint" <=> EngineWaitsAtStop
                   /\ StateAfterMessages(written[c]) = "executing" <=> target = "running"

\* C38: a command the hub handles while the engine is not blocked in the
\* select of a stop handler (not started, or target running) is not put
\* into DebugCommand, where a later stop would find and apply it.
C38_NoCommandRetainedForLaterStop ==
    [][(HubCommand /\ ~EngineWaitsAtStop) => DebugCommand' = DebugCommand]_vars

\* Connection c is the latest to arrive, its handler found the session's
\* hub with GetHub and is now in hub.Register.
JoinsExistingSession(c) ==
    /\ handler[c] = "register"
    /\ \A d \in Conns : d > c => handler[d] = "idle"
    /\ lastCall.op = "get"
    /\ ~lastCall.err

\* C39: a handler that obtained the session's hub and is in hub.Register
\* eventually has its connection in the set of the running hub, or the
\* connection is closed: Register does not block for ever on a hub whose
\* loop has returned.
C39_RegisterNeverBlocksForever ==
    \A c \in Conns :
        JoinsExistingSession(c)
            ~> (crashed \/ ~connOpen[c] \/ (c \in connections /\ hubLoop = "run"))

\* C40: a connection whose ReadPump has left its read loop is eventually
\* out of the set of the hub, with its send channel closed, while the
\* hub's loop runs; also when the read fails before Hub.Run has served the
\* connection's Register.
C40_DeadEndpointLeavesHub ==
    \A c \in Conns :
        (readPump[c] \in {"unregister", "done"})
            ~> (crashed \/ hubLoop # "run" \/ (c \notin connections /\ sendClosed[c]))

====
